---------------------------- MODULE Spec2Model ----------------------------
(***************************************************************************)
(* A model of the bscpeer crate: the UpgradeStatus codec and the BSC       *)
(* handshake (handshake.rs), the block state manager (peer/blockstate.rs)  *)
(* and the event loop and maintenance task that drive it (main.rs).        *)
(***************************************************************************)
EXTENDS Integers, Sequences, FiniteSets, TLC

(***************************************************************************)
(* Bounds of the model.                                                    *)
(***************************************************************************)
\* Longest byte sequence handed to UpgradeStatus::decode.
MaxMsgLen == 4

(***************************************************************************)
(* Program constants.                                                      *)
(***************************************************************************)
UPGRADE_STATUS_MESSAGE_ID == 11
\* alloy_rlp's EMPTY_STRING_CODE (0x80) and EMPTY_LIST_CODE (0xC0), used by
\* the Encodable/Decodable impls that handshake.rs imports and derives.
EMPTY_STRING_CODE == 128
EMPTY_LIST_CODE == 192

(***************************************************************************)
(* Byte buffers: a `&mut &[u8]` cursor is a sequence of bytes; advancing   *)
(* drops a prefix.                                                         *)
(***************************************************************************)
Advance(buf, cnt) == SubSeq(buf, cnt + 1, Len(buf))

Take(buf, cnt) == SubSeq(buf, 1, cnt)

RECURSIVE BigEndian(_)
BigEndian(bytes) ==
    IF Len(bytes) = 0 THEN 0
    ELSE BigEndian(Take(bytes, Len(bytes) - 1)) * 256 + bytes[Len(bytes)]

\* The outcome of a decoding step: res is "Ok", "Err" or "Panic".
DecOk(v, rest) == [res |-> "Ok", value |-> v, err |-> "None", rest |-> rest]

DecErr(e) == [res |-> "Err", value |-> 0, err |-> e, rest |-> <<>>]

DecPanic == [res |-> "Panic", value |-> 0, err |-> "None", rest |-> <<>>]

HdrOk(list, payload_length, rest) ==
    [res |-> "Ok", list |-> list, payload_length |-> payload_length,
     err |-> "None", rest |-> rest]

HdrErr(e) ==
    [res |-> "Err", list |-> FALSE, payload_length |-> 0, err |-> e, rest |-> <<>>]

\* The final check of Header::decode: the payload must be in the buffer.
HeaderPayloadCheck(list, payload_length, rest) ==
    IF Len(rest) < payload_length THEN HdrErr("InputTooShort")
    ELSE HdrOk(list, payload_length, rest)

\* alloy_rlp::Header::decode, as used by u8::decode and the derived
\* RlpDecodable of UpgradeStatusExtension.
HeaderDecode(buf) ==
    IF Len(buf) = 0 THEN HdrErr("InputTooShort")
    ELSE LET b == buf[1]
             rest == Advance(buf, 1)
         IN  IF b < EMPTY_STRING_CODE
             THEN HeaderPayloadCheck(FALSE, 1, buf)
             ELSE IF b <= 183
             THEN LET payload_length == b - EMPTY_STRING_CODE
                  IN  IF payload_length = 1 /\ Len(rest) = 0
                      THEN HdrErr("InputTooShort")
                      ELSE IF payload_length = 1 /\ rest[1] < EMPTY_STRING_CODE
                      THEN HdrErr("NonCanonicalSingleByte")
                      ELSE HeaderPayloadCheck(FALSE, payload_length, rest)
             ELSE IF b <= 191 \/ b >= 248
             THEN LET list == b >= 248
                      len_of_len == IF list THEN b - 247 ELSE b - 183
                  IN  IF Len(rest) < len_of_len THEN HdrErr("InputTooShort")
                      ELSE IF rest[1] = 0 THEN HdrErr("LeadingZero")
                      ELSE IF BigEndian(Take(rest, len_of_len)) < 56
                      THEN HdrErr("NonCanonicalSize")
                      ELSE HeaderPayloadCheck(list,
                               BigEndian(Take(rest, len_of_len)),
                               Advance(rest, len_of_len))
             ELSE HeaderPayloadCheck(TRUE, b - EMPTY_LIST_CODE, rest)

\* <u8 as Decodable>::decode, after Header::decode_bytes has read the
\* header: a string of at most one byte, with no leading zero.
U8FromHeader(h) ==
    IF h.res = "Err" THEN DecErr(h.err)
    ELSE IF h.list THEN DecErr("UnexpectedList")
    ELSE IF h.payload_length > 1 THEN DecErr("Overflow")
    ELSE IF h.payload_length = 0 THEN DecOk(0, h.rest)
    ELSE IF h.rest[1] = 0 THEN DecErr("LeadingZero")
    ELSE DecOk(h.rest[1], Advance(h.rest, 1))

\* <u8 as Decodable>::decode
U8Decode(buf) == U8FromHeader(HeaderDecode(buf))

\* <bool as Decodable>::decode, from the u8 it has decoded.
BoolFromU8(d) ==
    IF d.res = "Err" THEN d
    ELSE IF d.value = 0 THEN DecOk(FALSE, d.rest)
    ELSE IF d.value = 1 THEN DecOk(TRUE, d.rest)
    ELSE DecErr("Custom: invalid bool value, must be 0 or 1")

\* <bool as Decodable>::decode
BoolDecode(buf) == BoolFromU8(U8Decode(buf))

\* <u8 as Encodable>::encode.
U8Encode(x) ==
    IF x = 0 THEN <<EMPTY_STRING_CODE>>
    ELSE IF x < EMPTY_STRING_CODE THEN <<x>>
    ELSE <<EMPTY_STRING_CODE + 1, x>>

\* <bool as Encodable>::encode.
BoolEncode(b) == IF b THEN <<1>> ELSE <<EMPTY_STRING_CODE>>

\* #[derive(RlpEncodable)] for UpgradeStatusExtension: a list header over the
\* encoding of its one field.
UpgradeStatusExtensionEncode(ext) ==
    LET payload == BoolEncode(ext.disable_peer_tx_broadcast)
    IN  <<EMPTY_LIST_CODE + Len(payload)>> \o payload

\* #[derive(RlpDecodable)] for UpgradeStatusExtension, once the field has
\* been decoded from the payload of header h: the field must have consumed
\* the whole payload.
ExtensionFromField(h, f) ==
    IF f.res = "Err" THEN f
    ELSE IF Len(h.rest) - Len(f.rest) # h.payload_length
    THEN DecErr("ListLengthMismatch")
    ELSE DecOk([disable_peer_tx_broadcast |-> f.value], f.rest)

\* #[derive(RlpDecodable)] for UpgradeStatusExtension, after Header::decode:
\* the header must be a list whose payload is in the buffer.
ExtensionFromHeader(h) ==
    IF h.res = "Err" THEN DecErr(h.err)
    ELSE IF ~h.list THEN DecErr("UnexpectedString")
    ELSE IF Len(h.rest) < h.payload_length THEN DecErr("InputTooShort")
    ELSE ExtensionFromField(h, BoolDecode(h.rest))

\* #[derive(RlpDecodable)] for UpgradeStatusExtension
UpgradeStatusExtensionDecode(buf) == ExtensionFromHeader(HeaderDecode(buf))

\* impl Encodable for UpgradeStatus (also into_rlpx, which only collects the
\* bytes): the message id, then the extension.
UpgradeStatusEncode(msg) ==
    U8Encode(UPGRADE_STATUS_MESSAGE_ID) \o UpgradeStatusExtensionEncode(msg.extension)

\* UpgradeStatus::decode, the last two lines: the extension is wrapped.
UpgradeStatusFromExtension(e) ==
    IF e.res = "Err" THEN e ELSE DecOk([extension |-> e.value], e.rest)

\* UpgradeStatus::decode, after `u8::decode(buf)?`: the message id is
\* checked, one byte is skipped with Buf::advance (which panics when no byte
\* is left), then the extension is decoded.
UpgradeStatusFromMessageId(m) ==
    IF m.res = "Err" THEN m
    ELSE IF m.value # UPGRADE_STATUS_MESSAGE_ID
    THEN DecErr("Custom: Invalid message ID")
    ELSE IF Len(m.rest) < 1 THEN DecPanic
    ELSE UpgradeStatusFromExtension(UpgradeStatusExtensionDecode(Advance(m.rest, 1)))

\* impl Decodable for UpgradeStatus
UpgradeStatusDecode(buf) == UpgradeStatusFromMessageId(U8Decode(buf))

\* The bytes the model feeds to the decoder: the tag, the values of a bool,
\* the short and long string and list prefixes, and bytes that are none.
WireBytes == {0, 1, 2, UPGRADE_STATUS_MESSAGE_ID, EMPTY_STRING_CODE,
              EMPTY_STRING_CODE + 1, 184, EMPTY_LIST_CODE, EMPTY_LIST_CODE + 1,
              EMPTY_LIST_CODE + 2, 248}

ByteSeqs(alphabet, n) == UNION {[1..k -> alphabet] : k \in 0..n}

UpgradeStatusValues ==
    {[extension |-> [disable_peer_tx_broadcast |-> b]] : b \in BOOLEAN}


(***************************************************************************)
(* State.                                                                  *)
(***************************************************************************)
VARIABLES
    codec,              \* the codec under test: a value, a buffer, the last result
    gateway,            \* a BSCGatewayPeerSet: connected_peers and the last call on it
    locks,              \* the holder of each Mutex of the BlockStateManager
    tasks,              \* the event loop and the maintenance task: where each is in
                        \* its code, and its local variables
    counts,             \* per block number: insertions into pending_requests,
                        \* removals from it, requests sent
    event_channel,      \* the unbounded channel from SmartBlockImporter to main
    enqueued,           \* every event the importer has sent, in order
    applied,            \* every event the event loop has handled, in order
    hs,                 \* the BscHandshake::handshake future of one session
    sessions,           \* peers whose session the transport reports active
    current_height,     \* BlockStateManager.current_height
    peerset,            \* BlockStateManager.peerset (a Vec<PeerId>)
    pending_requests,   \* BlockStateManager.pending_requests (HashMap<u64, bool>)
    received_blocks,    \* BlockStateManager.received_blocks (HashSet<u64>)
    sent,               \* requests the last handler gave to NetworkHandle::send_request
    last,               \* the last operation called, its argument and its result
    max_height,         \* the largest height passed to new or update_height so far
    unanswered,         \* numbers of BlockInputs requested and not since passed to
                        \* process_received_block
    outstanding         \* numbers of BlockInputs requested and not since received or
                        \* dropped by a cleanup

codecVars == <<codec>>

hsVars == <<hs, sessions>>

lockVars == <<locks, tasks, counts>>

queueVars == <<event_channel, enqueued, applied>>

trackerVars == <<current_height, peerset, pending_requests, received_blocks, sent, last,
                 max_height, unanswered, outstanding>>

vars == <<codec, gateway, locks, tasks, counts, event_channel, enqueued, applied, hs,
          sessions, current_height, peerset, pending_requests, received_blocks, sent,
          last, max_height, unanswered, outstanding>>

(***************************************************************************)
(* The codec, driven on its own: a value is encoded, a buffer is decoded.  *)
(***************************************************************************)
NoResult == [res |-> "None", value |-> 0, err |-> "None", rest |-> <<>>]

\* UpgradeStatus::encode on the value, into the buffer.
CodecEncode ==
    /\ codec.op = "none"
    /\ codec' = [codec EXCEPT !.op = "encode",
                              !.bytes = UpgradeStatusEncode(codec.value),
                              !.encoded = TRUE]
    /\ UNCHANGED <<gateway, lockVars, queueVars, hsVars, trackerVars>>

\* UpgradeStatus::decode on the buffer.
CodecDecode ==
    /\ codec.op \in {"none", "encode"}
    /\ codec' = [codec EXCEPT !.op = "decode",
                              !.out = UpgradeStatusDecode(codec.bytes)]
    /\ UNCHANGED <<gateway, lockVars, queueVars, hsVars, trackerVars>>

(***************************************************************************)
(* The handshake of one session (handshake.rs).  The future returned by    *)
(* BscHandshake::handshake runs the base handshake and then upgrade_status *)
(* under one timeout; hs.pc is the await it is suspended at.               *)
(***************************************************************************)
\* The oldest version, which gets no upgrade status message.
Eth66 == 66

\* How many protocol versions newer than Eth66 a peer may negotiate.
MaxNewerVersions == 2

EthVersions == Eth66 .. (Eth66 + MaxNewerVersions)

\* How many distinct results the base handshake may agree on, per version.
MaxStatus == 2

\* The UnifiedStatus values the base handshake may return.
UnifiedStatuses == {[version |-> v, blockhash |-> b] : v \in EthVersions, b \in 1..MaxStatus}

NoStatus == [version |-> 0, blockhash |-> 0]

\* The peers of the model.
MaxPeers == 2

Peers == 1..MaxPeers

\* The bytes a peer's answer is made of: the tag, both values of the flag, a
\* one-element and a two-element list header.
PeerBytes == {1, UPGRADE_STATUS_MESSAGE_ID, EMPTY_STRING_CODE, EMPTY_LIST_CODE + 1,
              EMPTY_LIST_CODE + 2}

PeerMessages == ByteSeqs(PeerBytes, MaxMsgLen)

HsIdle ==
    [pc |-> "idle", peer |-> 0, status |-> NoStatus, wire |-> <<>>,
     received |-> <<>>, reason |-> "None", result |-> "None", err |-> "None",
     returned |-> NoStatus, ended |-> FALSE, active |-> FALSE]

\* The future completes: Ok(status) or Err(err).
HsReturnOk(h, status) ==
    [h EXCEPT !.pc = "returned", !.result = "Ok", !.returned = status]

HsReturnErr(h, e) == [h EXCEPT !.pc = "returned", !.result = "Err", !.err = e]

\* What the negotiator puts on the wire: a message or a disconnect.
WireMessage(bytes) == [kind |-> "message", bytes |-> bytes, reason |-> "None"]

WireDisconnect(reason) == [kind |-> "disconnect", bytes |-> <<>>, reason |-> reason]

\* The message upgrade_status sends: the flag is always false.
LocalUpgradeStatus == [extension |-> [disable_peer_tx_broadcast |-> FALSE]]

\* upgrade_status_start negotiating the extension from Eth66 on.
upgrade_status_start_from_eth66(h, negotiated_status, send_ok) ==
    IF negotiated_status.version >= Eth66
    THEN IF send_ok
         THEN [h EXCEPT !.pc = "next", !.status = negotiated_status,
                        !.wire = Append(@, WireMessage(UpgradeStatusEncode(LocalUpgradeStatus)))]
         ELSE HsReturnErr([h EXCEPT !.status = negotiated_status], "SendFailed")
    ELSE HsReturnOk([h EXCEPT !.status = negotiated_status], negotiated_status)

\* upgrade_status up to its first await: for a version newer than Eth66 the
\* local message is written (start_send_unpin, which may fail) and the
\* future waits for the peer's message; otherwise it returns the status.
upgrade_status_start(h, negotiated_status, send_ok) ==
    IF negotiated_status.version > Eth66
    THEN IF send_ok
         THEN [h EXCEPT !.pc = "next", !.status = negotiated_status,
                        !.wire = Append(@, WireMessage(UpgradeStatusEncode(LocalUpgradeStatus)))]
         ELSE HsReturnErr([h EXCEPT !.status = negotiated_status], "SendFailed")
    ELSE HsReturnOk([h EXCEPT !.status = negotiated_status], negotiated_status)

\* upgrade_status_on_none returning NoResponse without a disconnect.
upgrade_status_on_none_silent(h) == HsReturnErr(h, "NoResponse")

\* `unauth.next().await` yielded None: a disconnect is started.
upgrade_status_on_none(h) ==
    [h EXCEPT !.pc = "disconnect", !.reason = "DisconnectRequested"]

\* A stream error answered by a retry: the local message is written again and
\* the peer's message is awaited again.
upgrade_status_on_stream_error_retry(h) ==
    [h EXCEPT !.pc = "next",
              !.wire = Append(@, WireMessage(UpgradeStatusEncode(LocalUpgradeStatus)))]

\* `unauth.next().await` yielded Some(Err(e)).
upgrade_status_on_stream_error(h) == HsReturnErr(h, "StreamError")

\* The match on the result of UpgradeStatus::decode: Ok returns the status,
\* Err starts a disconnect; a panic unwinds the future.
upgrade_status_on_decoded(h, d) ==
    IF d.res = "Ok" THEN HsReturnOk(h, h.status)
    ELSE IF d.res = "Err"
    THEN [h EXCEPT !.pc = "disconnect", !.reason = "ProtocolBreach"]
    ELSE [h EXCEPT !.pc = "panicked"]

\* `unauth.next().await` yielded Some(Ok(msg)): the message is decoded.
upgrade_status_on_message(h, their_msg) ==
    upgrade_status_on_decoded([h EXCEPT !.received = Append(@, their_msg)],
                              UpgradeStatusDecode(their_msg))

\* The error returned once the disconnect has been sent.
ErrorAfterDisconnect(reason) ==
    IF reason = "DisconnectRequested" THEN "NoResponse"
    ELSE "NonStatusMessageInHandshake"

\* `unauth.disconnect(reason).await?` completes.
upgrade_status_on_disconnect(h, ok) ==
    IF ok
    THEN HsReturnErr([h EXCEPT !.wire = Append(@, WireDisconnect(h.reason))],
                     ErrorAfterDisconnect(h.reason))
    ELSE HsReturnErr(h, "DisconnectFailed")

\* The awaits a timeout around the base handshake alone would cover.
HsAwaitsBaseHandshake == {"eth_handshake"}

\* The awaits of the future, at which the timeout may find it pending.
HsAwaits == {"eth_handshake", "next", "disconnect"}

\* timeout(timeout_limit, fut) elapses: the future is dropped.
handshake_timeout(h) == HsReturnErr(h, "StreamTimeout")

(***************************************************************************)
(* The block state manager (peer/blockstate.rs).  Each method is an        *)
(* operator from the manager's fields, and the requests sent so far in the *)
(* running handler, to their values when the method returns.               *)
(***************************************************************************)
\* The window of check_and_request_missing_blocks, and the two numbers of
\* cleanup_expired_requests.
GAP_WINDOW == 5

CLEANUP_LIMIT == 100

CLEANUP_KEEP == 50

Tracker ==
    [current_height |-> current_height, peerset |-> peerset,
     pending_requests |-> pending_requests, received_blocks |-> received_blocks,
     sent |-> <<>>, warned |-> FALSE, ret |-> "unit"]

\* BlockStateManager::new
new(starting_height) ==
    [current_height |-> starting_height, peerset |-> <<>>,
     pending_requests |-> <<>>, received_blocks |-> {},
     sent |-> <<>>, warned |-> FALSE, ret |-> "unit"]

Contains(seq, x) == \E i \in 1..Len(seq) : seq[i] = x

\* Vec::retain
RECURSIVE Retain(_, _)
Retain(seq, x) ==
    IF Len(seq) = 0 THEN <<>>
    ELSE IF Head(seq) = x THEN Retain(Tail(seq), x)
    ELSE <<Head(seq)>> \o Retain(Tail(seq), x)

\* add_peer without the contains check: every call pushes.
add_peer_push(t, peer_id) == [t EXCEPT !.peerset = Append(@, peer_id)]

add_peer(t, peer_id) ==
    IF ~Contains(t.peerset, peer_id)
    THEN [t EXCEPT !.peerset = Append(@, peer_id)]
    ELSE t

remove_peer(t, peer_id) == [t EXCEPT !.peerset = Retain(@, peer_id)]

get_current_height(t) == t.current_height

\* update_height taking any height that differs from the current one.
update_height_any(t, new_height) ==
    IF new_height # t.current_height
    THEN [t EXCEPT !.current_height = new_height, !.ret = TRUE]
    ELSE [t EXCEPT !.ret = FALSE]

update_height(t, new_height) ==
    IF new_height > t.current_height
    THEN [t EXCEPT !.current_height = new_height, !.ret = TRUE]
    ELSE [t EXCEPT !.ret = FALSE]

\* add_received_block keeping only the latest number.
add_received_block_latest(t, block_number) ==
    [t EXCEPT !.received_blocks = {block_number}]

add_received_block(t, block_number) ==
    [t EXCEPT !.received_blocks = @ \cup {block_number}]

is_block_received(t, block_number) == block_number \in t.received_blocks

\* HashMap::contains_key, insert, remove, retain and len on pending_requests.
ContainsKey(map, k) == k \in DOMAIN map

Insert(map, k, v) == (k :> v) @@ map

Remove(map, k) == [x \in DOMAIN map \ {k} |-> map[x]]

RetainAbove(map, threshold) == [x \in {k \in DOMAIN map : k > threshold} |-> map[x]]

MapLen(map) == Cardinality(DOMAIN map)

\* The GetBlockHeaders request of request_block_by_number, with the peer it
\* is sent to.
GetBlockHeaders(peer_id, block_number) ==
    [peer_id |-> peer_id, start_block |-> block_number, limit |-> 1, skip |-> 0,
     direction |-> "Rising"]

\* request_block_by_number without the look-up in pending_requests.
request_block_by_number_resend(t, block_number) ==
    IF Len(t.peerset) > 0
    THEN [t EXCEPT !.pending_requests = Insert(@, block_number, TRUE),
                   !.sent = Append(@, GetBlockHeaders(t.peerset[1], block_number))]
    ELSE [t EXCEPT !.warned = TRUE]

\* request_block_by_number marking the number pending before it looks for a
\* peer.
request_block_by_number_marks(t, block_number) ==
    IF ContainsKey(t.pending_requests, block_number)
    THEN t
    ELSE IF Len(t.peerset) > 0
    THEN [t EXCEPT !.pending_requests = Insert(@, block_number, TRUE),
                   !.sent = Append(@, GetBlockHeaders(t.peerset[1], block_number))]
    ELSE [t EXCEPT !.pending_requests = Insert(@, block_number, TRUE),
                   !.warned = TRUE]

\* request_block_by_number choosing the last peer of the vector.
request_block_by_number_last_peer(t, block_number) ==
    IF Len(t.peerset) > 0
    THEN IF ContainsKey(t.pending_requests, block_number)
         THEN t
         ELSE [t EXCEPT !.pending_requests = Insert(@, block_number, TRUE),
                        !.sent = Append(@, GetBlockHeaders(t.peerset[Len(t.peerset)],
                                                           block_number))]
    ELSE [t EXCEPT !.warned = TRUE]

request_block_by_number(t, block_number) ==
    IF Len(t.peerset) > 0
    THEN IF ContainsKey(t.pending_requests, block_number)
         THEN t
         ELSE [t EXCEPT !.pending_requests = Insert(@, block_number, TRUE),
                        !.sent = Append(@, GetBlockHeaders(t.peerset[1], block_number))]
    ELSE [t EXCEPT !.warned = TRUE]

\* request_next_block without the + 1: the block at the current height is
\* requested.
request_current_block(t) == request_block_by_number(t, get_current_height(t))

request_next_block(t) == request_block_by_number(t, get_current_height(t) + 1)

Min(a, b) == IF a < b THEN a ELSE b

\* The loop `for missing_block in start..end` of
\* check_and_request_missing_blocks.
RECURSIVE RequestMissing(_, _, _)
RequestMissing(t, missing_block, end) ==
    IF missing_block >= end THEN t
    ELSE RequestMissing(IF ~is_block_received(t, missing_block)
                        THEN request_block_by_number(t, missing_block)
                        ELSE t,
                        missing_block + 1, end)

\* check_and_request_missing_blocks walking the window up to and including
\* its end.
check_and_request_missing_blocks_inclusive(t, received_block_number) ==
    LET height == get_current_height(t)
        start == height + 1
        end == Min(start + GAP_WINDOW, received_block_number)
    IN  IF received_block_number > height + 1
        THEN RequestMissing(t, start, end + 1)
        ELSE t

check_and_request_missing_blocks(t, received_block_number) ==
    LET height == get_current_height(t)
        start == height + 1
        end == Min(start + GAP_WINDOW, received_block_number)
    IN  IF received_block_number > height + 1
        THEN RequestMissing(t, start, end)
        ELSE t

\* process_received_block with the branch for a continuous block that the
\* source has commented out: the height advances and the next block is
\* requested.
process_received_block_advancing(t, block_number) ==
    IF block_number = get_current_height(t) + 1
    THEN request_next_block(
             update_height(
                 add_received_block(
                     [t EXCEPT !.pending_requests = Remove(@, block_number)],
                     block_number),
                 block_number))
    ELSE add_received_block([t EXCEPT !.pending_requests = Remove(@, block_number)],
                            block_number)

process_received_block(t, block_number) ==
    add_received_block([t EXCEPT !.pending_requests = Remove(@, block_number)],
                       block_number)

\* The loop body with >= in place of >: a block at the current height is
\* requested too.
RequestIfNewFromHeight(t, block_number, height) ==
    IF block_number >= height /\ ~is_block_received(t, block_number)
    THEN request_block_by_number(t, block_number)
    ELSE t

\* One iteration of the loop of process_block_hashes.
RequestIfNew(t, block_number, height) ==
    IF block_number > height /\ ~is_block_received(t, block_number)
    THEN request_block_by_number(t, block_number)
    ELSE t

\* The loop of process_block_hashes over block_numbers[lo..hi], in order;
\* the height is read once, before it.  The slice is walked by halves, which
\* visits the same numbers in the same order; the test on `left` has the
\* left half evaluated before the right half is entered.
RECURSIVE RequestAnnounced(_, _, _, _, _)
RequestAnnounced(t, block_numbers, height, lo, hi) ==
    IF lo > hi THEN t
    ELSE IF lo = hi THEN RequestIfNew(t, block_numbers[lo], height)
    ELSE LET mid == (lo + hi) \div 2
             left == RequestAnnounced(t, block_numbers, height, lo, mid)
         IN  IF left.ret = "unit"
             THEN RequestAnnounced(left, block_numbers, height, mid + 1, hi)
             ELSE left

process_block_hashes(t, block_numbers) ==
    RequestAnnounced(t, block_numbers, get_current_height(t), 1, Len(block_numbers))

\* The difference over the integers, which goes below 0.
SaturatingSub_unbounded(a, b) == a - b

\* u64::saturating_sub
SaturatingSub(a, b) == IF a > b THEN a - b ELSE 0

\* cleanup_expired_requests keeping only the keys above the height.
cleanup_expired_requests_height(t) ==
    IF MapLen(t.pending_requests) > CLEANUP_LIMIT
    THEN [t EXCEPT !.pending_requests = RetainAbove(@, get_current_height(t))]
    ELSE t

cleanup_expired_requests(t) ==
    IF MapLen(t.pending_requests) > CLEANUP_LIMIT
    THEN [t EXCEPT !.pending_requests =
                       RetainAbove(@, SaturatingSub(get_current_height(t), CLEANUP_KEEP))]
    ELSE t

(***************************************************************************)
(* The callers of the block state manager: the arms of the event loop and  *)
(* the maintenance task of main.rs, and direct calls of its methods.       *)
(***************************************************************************)
\* Bounds on the numbers the callers pass.
MaxHeight == 1

MaxBlock == 1

\* Heights the manager starts at.
StartingHeights == {0, MaxHeight}

\* Heights passed to update_height: low ones, and one past CLEANUP_KEEP, for
\* which a cleanup has something to drop.
HeightInputs == StartingHeights \cup {CLEANUP_KEEP + MaxHeight}

\* Block numbers passed to request_block_by_number and carried by events.
BlockInputs == {0, MaxBlock}

\* Block numbers passed to check_and_request_missing_blocks: at or below the
\* height, inside the window above it, and past the window.
GapInputs == {0, MaxHeight + 3, MaxHeight + 2 * GAP_WINDOW}

\* One announcement long enough to fill pending_requests past CLEANUP_LIMIT.
LongAnnouncement == [i \in 1..(CLEANUP_LIMIT + 1) |-> i]

\* The block_numbers of NewBlockHashes events.
HashInputs == {<<n>> : n \in BlockInputs} \cup {LongAnnouncement}

SentNumbers(t) == {t.sent[i].start_block : i \in 1..Len(t.sent)}

\* The handler `op`, called with `arg`, took the manager to `t`; `received`
\* and `dropped` are the numbers it passed to process_received_block and
\* the ones its cleanup removed.
Apply(op, arg, t, received, dropped) ==
    /\ current_height' = t.current_height
    /\ peerset' = t.peerset
    /\ pending_requests' = t.pending_requests
    /\ received_blocks' = t.received_blocks
    /\ sent' = t.sent
    /\ last' = [op |-> op, arg |-> arg, ret |-> t.ret, warned |-> t.warned,
                dropped |-> dropped]
    /\ max_height' = IF op = "update_height" /\ arg > max_height THEN arg ELSE max_height
    /\ unanswered' = (unanswered \ received) \cup (SentNumbers(t) \cap BlockInputs)
    /\ outstanding' = ((outstanding \ received) \ dropped)
                          \cup (SentNumbers(t) \cap BlockInputs)

\* The numbers a cleanup removes from pending_requests.
Dropped(t) ==
    DOMAIN t.pending_requests \ DOMAIN cleanup_expired_requests(t).pending_requests

\* main.rs, the ActivePeerSession arm of the event loop.
OnActivePeerSession(t, peer_id) == request_next_block(add_peer(t, peer_id))

\* main.rs, the SessionClosed arm.
OnSessionClosed(t, peer_id) == remove_peer(t, peer_id)

\* main.rs, the NewBlock arm.
OnNewBlock(t, block_number) == process_received_block(t, block_number)

\* main.rs, the NewBlockHashes arm.
OnNewBlockHashes(t, block_numbers) == process_block_hashes(t, block_numbers)

\* main.rs, one tick of the maintenance task.
OnTick(t) ==
    LET c == cleanup_expired_requests(t)
    IN  IF Len(c.peerset) > 0 THEN request_next_block(c) ELSE c

\* The arms run for whatever event arrives: the order of the events is the
\* transport's, and SpecHandshake models it.
ActivePeerSession(p) ==
    /\ Apply("ActivePeerSession", p, OnActivePeerSession(Tracker, p), {}, {})
    /\ UNCHANGED <<codec, gateway, lockVars, queueVars, hsVars>>

SessionClosed(p) ==
    /\ Apply("SessionClosed", p, OnSessionClosed(Tracker, p), {}, {})
    /\ UNCHANGED <<codec, gateway, lockVars, queueVars, hsVars>>

AddPeer(p) ==
    /\ Apply("add_peer", p, add_peer(Tracker, p), {}, {})
    /\ UNCHANGED <<codec, gateway, lockVars, queueVars, hsVars>>

NewBlock(n) ==
    /\ Apply("NewBlock", n, OnNewBlock(Tracker, n), {n}, {})
    /\ UNCHANGED <<codec, gateway, lockVars, queueVars, hsVars>>

NewBlockHashes(ns) ==
    /\ Apply("NewBlockHashes", ns, OnNewBlockHashes(Tracker, ns), {}, {})
    /\ UNCHANGED <<codec, gateway, lockVars, queueVars, hsVars>>

Tick ==
    /\ Apply("Tick", 0, OnTick(Tracker), {}, Dropped(Tracker))
    /\ UNCHANGED <<codec, gateway, lockVars, queueVars, hsVars>>

UpdateHeight(h) ==
    /\ Apply("update_height", h, update_height(Tracker, h), {}, {})
    /\ UNCHANGED <<codec, gateway, lockVars, queueVars, hsVars>>

RequestBlockByNumber(n) ==
    /\ Apply("request_block_by_number", n, request_block_by_number(Tracker, n), {}, {})
    /\ UNCHANGED <<codec, gateway, lockVars, queueVars, hsVars>>

RequestNextBlock ==
    /\ Apply("request_next_block", 0, request_next_block(Tracker), {}, {})
    /\ UNCHANGED <<codec, gateway, lockVars, queueVars, hsVars>>

CheckAndRequestMissingBlocks(r) ==
    /\ Apply("check_and_request_missing_blocks", r,
             check_and_request_missing_blocks(Tracker, r), {}, {})
    /\ UNCHANGED <<codec, gateway, lockVars, queueVars, hsVars>>

CleanupExpiredRequests ==
    /\ Apply("cleanup_expired_requests", 0, cleanup_expired_requests(Tracker), {},
             Dropped(Tracker))
    /\ UNCHANGED <<codec, gateway, lockVars, queueVars, hsVars>>

(***************************************************************************)
(* BSCGatewayPeerSet (peer/peerset.rs): a Vec<PeerId> behind one mutex.    *)
(* Each method holds the lock for its whole body, so a call is one step.   *)
(***************************************************************************)
MaxGatewayPeers == 4

GatewayPeers == 1..MaxGatewayPeers

\* BSCGatewayPeerSet::new
peerset_new == <<>>

\* add_peer without the contains check: every call pushes.
peerset_add_peer_push(peers, peer_id) == Append(peers, peer_id)

\* BSCGatewayPeerSet::add_peer
peerset_add_peer(peers, peer_id) ==
    IF ~Contains(peers, peer_id) THEN Append(peers, peer_id) ELSE peers

\* BSCGatewayPeerSet::remove_peer
peerset_remove_peer(peers, peer_id) == Retain(peers, peer_id)

\* BSCGatewayPeerSet::get_all_peers: a clone of the vector.
get_all_peers(peers) == peers

\* BSCGatewayPeerSet::get_peer_count
get_peer_count(peers) == Len(peers)

\* connected_peers is the vector; op, arg and ret are the last call, its
\* argument and what it returned; added is the set of ids whose latest
\* add_peer / remove_peer call was an add_peer.
GatewayIdle ==
    [connected_peers |-> peerset_new, op |-> "none", arg |-> 0, ret |-> "unit",
     added |-> {}]

GatewayAddPeer(p) ==
    /\ gateway' = [connected_peers |-> peerset_add_peer(gateway.connected_peers, p),
                   op |-> "add_peer", arg |-> p, ret |-> "unit",
                   added |-> gateway.added \cup {p}]
    /\ UNCHANGED <<codec, lockVars, queueVars, hsVars, trackerVars>>

GatewayRemovePeer(p) ==
    /\ gateway' = [connected_peers |-> peerset_remove_peer(gateway.connected_peers, p),
                   op |-> "remove_peer", arg |-> p, ret |-> "unit",
                   added |-> gateway.added \ {p}]
    /\ UNCHANGED <<codec, lockVars, queueVars, hsVars, trackerVars>>

GatewayGetAllPeers ==
    /\ gateway' = [gateway EXCEPT !.op = "get_all_peers", !.arg = 0,
                                  !.ret = get_all_peers(gateway.connected_peers)]
    /\ UNCHANGED <<codec, lockVars, queueVars, hsVars, trackerVars>>

GatewayGetPeerCount ==
    /\ gateway' = [gateway EXCEPT !.op = "get_peer_count", !.arg = 0,
                                  !.ret = get_peer_count(gateway.connected_peers)]
    /\ UNCHANGED <<codec, lockVars, queueVars, hsVars, trackerVars>>

(***************************************************************************)
(* The BlockStateManager with its four mutexes, as the two tasks of        *)
(* main.rs use it: the event loop ("events") and the maintenance task      *)
(* ("timer").  A step is the code from one lock() to the next; a mutex     *)
(* that is taken and released without another lock() in between is not     *)
(* recorded in locks, a guard that lives across a later lock() is.         *)
(***************************************************************************)
MaxTicks == 3

MaxLockEvents == 3

TaskNames == {"events", "timer"}

LockNames == {"peerset", "pending_requests", "current_height", "received_blocks"}

\* The block numbers whose insertions, removals and requests are counted.
CountedNumbers == BlockInputs \cup {1}

\* The announcements the event loop handles in the lock-level model.
AnnouncedInputs == {<<n>> : n \in BlockInputs} \cup {<<MaxBlock, MaxBlock + 1>>}

\* A task outside every handler.
TaskIdle == [pc |-> "idle", arg |-> 0, block_number |-> 0, peer_id |-> 0,
             rest |-> <<>>, height |-> 0]

NoLocks == [l \in LockNames |-> "none"]

NoCounts ==
    [inserted |-> [n \in CountedNumbers |-> 0],
     removed |-> [n \in CountedNumbers |-> 0],
     requested |-> [n \in CountedNumbers |-> 0],
     started |-> [k \in TaskNames |-> 0]]

LocksIdle ==
    /\ locks = NoLocks
    /\ tasks = [k \in TaskNames |-> TaskIdle]
    /\ counts = NoCounts

\* What a step of the lock-level model leaves alone.
lockFrame == <<codec, gateway, queueVars, hsVars, last, max_height, unanswered,
               outstanding>>

\* The channel of block events before anything is sent.
QueueIdle ==
    /\ event_channel = <<>>
    /\ enqueued = <<>>
    /\ applied = <<>>

\* The Mutex is free: lock() returns at once.
Free(l) == locks[l] = "none"

\* Where a task goes on when request_block_by_number returns: back into the
\* loop of process_block_hashes, or out of its handler.
Return(task) ==
    [task EXCEPT !.pc = IF task.rest # <<>> THEN "hashes_received" ELSE "idle"]

\* request_block_by_number giving up the peers guard once the peer is chosen.
HeldAfterSelect_released(k) == locks

\* `let peers = self.peerset.lock().unwrap()`: the guard lives to the end of
\* request_block_by_number.
HeldAfterSelect(k) == [locks EXCEPT !["peerset"] = k]

\* The counters after one more insertion, removal or request of number n.
Counted(c, field, n) ==
    IF n \in CountedNumbers THEN [c EXCEPT ![field][n] = @ + 1] ELSE c

\* The counters after a retain that dropped the numbers in `gone`.
CountedDropped(c, gone) ==
    [c EXCEPT !.removed = [n \in CountedNumbers |->
                               IF n \in gone THEN @[n] + 1 ELSE @[n]]]

\* The insertion of request_block_by_number without the contains_key test.
PendingAbsent_any(map, block_number) == TRUE

\* `pending.contains_key(&block_number)` is false: the number is inserted.
PendingAbsent(map, block_number) == ~ContainsKey(map, block_number)

\* request_block_by_number, blockstate.rs:96-97: the peers guard is taken and
\* the first peer chosen; without a peer the function warns and returns.
ReqPeers(k) ==
    /\ tasks[k].pc = "req_peers"
    /\ Free("peerset")
    /\ IF Len(peerset) > 0
       THEN /\ locks' = HeldAfterSelect(k)
            /\ tasks' = [tasks EXCEPT ![k].pc = "req_pending",
                                      ![k].peer_id = peerset[1]]
       ELSE /\ locks' = locks
            /\ tasks' = [tasks EXCEPT ![k] = Return(@)]
    /\ sent' = <<>>
    /\ UNCHANGED <<counts, current_height, peerset, pending_requests, received_blocks>>
    /\ UNCHANGED lockFrame

\* blockstate.rs:98-104: under the pending guard the number is looked up and
\* inserted; a number already pending returns, dropping the peers guard.
ReqPending(k) ==
    /\ tasks[k].pc = "req_pending"
    /\ Free("pending_requests")
    /\ IF PendingAbsent(pending_requests, tasks[k].block_number)
       THEN /\ pending_requests' = Insert(pending_requests, tasks[k].block_number, TRUE)
            /\ counts' = Counted(counts, "inserted", tasks[k].block_number)
            /\ tasks' = [tasks EXCEPT ![k].pc = "req_send"]
            /\ locks' = locks
       ELSE /\ pending_requests' = pending_requests
            /\ counts' = counts
            /\ tasks' = [tasks EXCEPT ![k] = Return(@)]
            /\ locks' = [l \in LockNames |-> IF locks[l] = k THEN "none" ELSE locks[l]]
    /\ sent' = <<>>
    /\ UNCHANGED <<current_height, peerset, received_blocks>>
    /\ UNCHANGED lockFrame

\* blockstate.rs:106-121: the request is handed to send_request and the
\* function ends, dropping the peers guard.
ReqSend(k) ==
    /\ tasks[k].pc = "req_send"
    /\ sent' = <<GetBlockHeaders(tasks[k].peer_id, tasks[k].block_number)>>
    /\ counts' = Counted(counts, "requested", tasks[k].block_number)
    /\ tasks' = [tasks EXCEPT ![k] = Return(@)]
    /\ locks' = [l \in LockNames |-> IF locks[l] = k THEN "none" ELSE locks[l]]
    /\ UNCHANGED <<current_height, peerset, pending_requests, received_blocks>>
    /\ UNCHANGED lockFrame

\* request_next_block, blockstate.rs:128: get_current_height.
NextHeight(k) ==
    /\ tasks[k].pc = "next_height"
    /\ Free("current_height")
    /\ tasks' = [tasks EXCEPT ![k].pc = "req_peers",
                              ![k].block_number = current_height + 1]
    /\ sent' = <<>>
    /\ UNCHANGED <<locks, counts, current_height, peerset, pending_requests,
                   received_blocks>>
    /\ UNCHANGED lockFrame

\* main.rs:81-82: the interval fires.
TimerTick ==
    /\ tasks["timer"].pc = "idle"
    /\ counts.started["timer"] < MaxTicks
    /\ counts' = [counts EXCEPT !.started["timer"] = @ + 1]
    /\ tasks' = [tasks EXCEPT !["timer"].pc = "cleanup"]
    /\ sent' = <<>>
    /\ UNCHANGED <<locks, current_height, peerset, pending_requests, received_blocks>>
    /\ UNCHANGED lockFrame

\* cleanup_expired_requests, blockstate.rs:207-208: the pending guard is
\* taken; with more than 100 entries it is kept for the retain.
Cleanup ==
    /\ tasks["timer"].pc = "cleanup"
    /\ Free("pending_requests")
    /\ IF MapLen(pending_requests) > CLEANUP_LIMIT
       THEN /\ locks' = [locks EXCEPT !["pending_requests"] = "timer"]
            /\ tasks' = [tasks EXCEPT !["timer"].pc = "cleanup_height"]
       ELSE /\ locks' = locks
            /\ tasks' = [tasks EXCEPT !["timer"].pc = "check_peers"]
    /\ sent' = <<>>
    /\ UNCHANGED <<counts, current_height, peerset, pending_requests, received_blocks>>
    /\ UNCHANGED lockFrame

\* blockstate.rs:210-216: get_current_height under the pending guard, the
\* retain, and the end of the function.
CleanupHeight ==
    /\ tasks["timer"].pc = "cleanup_height"
    /\ Free("current_height")
    /\ pending_requests' =
           RetainAbove(pending_requests, SaturatingSub(current_height, CLEANUP_KEEP))
    /\ counts' = CountedDropped(counts, DOMAIN pending_requests
                                            \ DOMAIN pending_requests')
    /\ locks' = [locks EXCEPT !["pending_requests"] = "none"]
    /\ tasks' = [tasks EXCEPT !["timer"].pc = "check_peers"]
    /\ sent' = <<>>
    /\ UNCHANGED <<current_height, peerset, received_blocks>>
    /\ UNCHANGED lockFrame

\* The test of the maintenance task without drop(connected_peers): the peers
\* guard is still held when request_next_block is called.
CheckPeers_kept ==
    /\ tasks["timer"].pc = "check_peers"
    /\ Free("peerset")
    /\ tasks' = [tasks EXCEPT !["timer"].pc =
                     IF Len(peerset) > 0 THEN "next_height" ELSE "idle"]
    /\ locks' = IF Len(peerset) > 0 THEN [locks EXCEPT !["peerset"] = "timer"] ELSE locks
    /\ sent' = <<>>
    /\ UNCHANGED <<counts, current_height, peerset, pending_requests, received_blocks>>
    /\ UNCHANGED lockFrame

\* main.rs:86-90: the peers guard is taken, tested and dropped.
CheckPeers ==
    /\ tasks["timer"].pc = "check_peers"
    /\ Free("peerset")
    /\ tasks' = [tasks EXCEPT !["timer"].pc =
                     IF Len(peerset) > 0 THEN "next_height" ELSE "idle"]
    /\ sent' = <<>>
    /\ UNCHANGED <<locks, counts, current_height, peerset, pending_requests,
                   received_blocks>>
    /\ UNCHANGED lockFrame

\* The event loop takes an event out of select!.
EventTaken(pc, arg, rest) ==
    /\ counts.started["events"] < MaxLockEvents
    /\ counts' = [counts EXCEPT !.started["events"] = @ + 1]
    /\ tasks' = [tasks EXCEPT !["events"] =
                     [TaskIdle EXCEPT !.pc = pc, !.arg = arg, !.rest = rest]]
    /\ sent' = <<>>
    /\ UNCHANGED <<locks, current_height, peerset, pending_requests, received_blocks>>
    /\ UNCHANGED lockFrame

\* main.rs:98: an ActivePeerSession event.
TakeActivePeerSession(p) ==
    /\ tasks["events"].pc = "idle"
    /\ EventTaken("add_peer", p, <<>>)

\* main.rs:115: a SessionClosed event.
TakeSessionClosed(p) ==
    /\ tasks["events"].pc = "idle"
    /\ EventTaken("remove_peer", p, <<>>)

\* main.rs:136: a NewBlock event.
TakeNewBlock(n) ==
    /\ tasks["events"].pc = "idle"
    /\ EventTaken("log_height_block", n, <<>>)

\* main.rs:148: a NewBlockHashes event.
TakeNewBlockHashes(ns) ==
    /\ tasks["events"].pc = "idle"
    /\ EventTaken("log_height_hashes", 0, ns)

\* add_peer, blockstate.rs:47-53; main.rs:113 goes on to request_next_block.
AddPeerLocked ==
    /\ tasks["events"].pc = "add_peer"
    /\ Free("peerset")
    /\ peerset' = IF ~Contains(peerset, tasks["events"].arg)
                  THEN Append(peerset, tasks["events"].arg)
                  ELSE peerset
    /\ tasks' = [tasks EXCEPT !["events"].pc = "next_height"]
    /\ sent' = <<>>
    /\ UNCHANGED <<locks, counts, current_height, pending_requests, received_blocks>>
    /\ UNCHANGED lockFrame

\* remove_peer, blockstate.rs:55-59.
RemovePeerLocked ==
    /\ tasks["events"].pc = "remove_peer"
    /\ Free("peerset")
    /\ peerset' = Retain(peerset, tasks["events"].arg)
    /\ tasks' = [tasks EXCEPT !["events"].pc = "idle"]
    /\ sent' = <<>>
    /\ UNCHANGED <<locks, counts, current_height, pending_requests, received_blocks>>
    /\ UNCHANGED lockFrame

\* main.rs:142 and main.rs:152: get_current_height for the log line.
LogHeight ==
    /\ tasks["events"].pc \in {"log_height_block", "log_height_hashes"}
    /\ Free("current_height")
    /\ tasks' = [tasks EXCEPT !["events"].pc =
                     IF @ = "log_height_block" THEN "recv_pending" ELSE "hashes_height"]
    /\ sent' = <<>>
    /\ UNCHANGED <<locks, counts, current_height, peerset, pending_requests,
                   received_blocks>>
    /\ UNCHANGED lockFrame

\* process_received_block, blockstate.rs:164-167.
RecvPending ==
    /\ tasks["events"].pc = "recv_pending"
    /\ Free("pending_requests")
    /\ pending_requests' = Remove(pending_requests, tasks["events"].arg)
    /\ counts' = IF ContainsKey(pending_requests, tasks["events"].arg)
                 THEN Counted(counts, "removed", tasks["events"].arg)
                 ELSE counts
    /\ tasks' = [tasks EXCEPT !["events"].pc = "recv_received"]
    /\ sent' = <<>>
    /\ UNCHANGED <<locks, current_height, peerset, received_blocks>>
    /\ UNCHANGED lockFrame

\* process_received_block, blockstate.rs:169: add_received_block.
RecvReceived ==
    /\ tasks["events"].pc = "recv_received"
    /\ Free("received_blocks")
    /\ received_blocks' = received_blocks \cup {tasks["events"].arg}
    /\ tasks' = [tasks EXCEPT !["events"].pc = "idle"]
    /\ sent' = <<>>
    /\ UNCHANGED <<locks, counts, current_height, peerset, pending_requests>>
    /\ UNCHANGED lockFrame

\* process_block_hashes, blockstate.rs:197: the height is read once.
HashesHeight ==
    /\ tasks["events"].pc = "hashes_height"
    /\ Free("current_height")
    /\ tasks' = [tasks EXCEPT !["events"].pc = "hashes_received",
                              !["events"].height = current_height]
    /\ sent' = <<>>
    /\ UNCHANGED <<locks, counts, current_height, peerset, pending_requests,
                   received_blocks>>
    /\ UNCHANGED lockFrame

\* process_block_hashes, blockstate.rs:199-200: the next number of the
\* announcement is tested, is_block_received taking the received guard.
HashesReceived ==
    /\ tasks["events"].pc = "hashes_received"
    /\ Free("received_blocks")
    /\ tasks' = [tasks EXCEPT !["events"] =
                     IF Head(tasks["events"].rest) > tasks["events"].height
                        /\ Head(tasks["events"].rest) \notin received_blocks
                     THEN [tasks["events"] EXCEPT
                               !.pc = "req_peers",
                               !.block_number = Head(tasks["events"].rest),
                               !.rest = Tail(tasks["events"].rest)]
                     ELSE Return([tasks["events"] EXCEPT
                                      !.rest = Tail(tasks["events"].rest)])]
    /\ sent' = <<>>
    /\ UNCHANGED <<locks, counts, current_height, peerset, pending_requests,
                   received_blocks>>
    /\ UNCHANGED lockFrame

NoCall == [op |-> "none", arg |-> 0, ret |-> "unit", warned |-> FALSE, dropped |-> {}]

CodecIdle ==
    [op |-> "none", value |-> LocalUpgradeStatus, bytes |-> <<>>, encoded |-> FALSE,
     out |-> NoResult]

\* The manager as BlockStateManager::new(starting_height) leaves it.
TrackerInit(starting_height) ==
    /\ current_height = new(starting_height).current_height
    /\ peerset = new(starting_height).peerset
    /\ pending_requests = new(starting_height).pending_requests
    /\ received_blocks = new(starting_height).received_blocks
    /\ sent = <<>>
    /\ last = NoCall
    /\ max_height = starting_height
    /\ unanswered = {}
    /\ outstanding = {}

(***************************************************************************)
(* Spec: the block state manager under every sequence of its callers.      *)
(***************************************************************************)
Init ==
    /\ codec = CodecIdle
    /\ gateway = GatewayIdle
    /\ LocksIdle
    /\ QueueIdle
    /\ hs = HsIdle
    /\ sessions = {}
    /\ \E h \in StartingHeights : TrackerInit(h)

Next ==
    \/ \E p \in Peers : ActivePeerSession(p)
    \/ \E p \in Peers : SessionClosed(p)
    \/ \E p \in Peers : AddPeer(p)
    \/ \E n \in BlockInputs : NewBlock(n)
    \/ \E ns \in HashInputs : NewBlockHashes(ns)
    \/ Tick
    \/ \E h \in HeightInputs : UpdateHeight(h)
    \/ \E n \in BlockInputs : RequestBlockByNumber(n)
    \/ RequestNextBlock
    \/ \E r \in GapInputs : CheckAndRequestMissingBlocks(r)
    \/ CleanupExpiredRequests

Spec == Init /\ [][Next]_vars

(***************************************************************************)
(* SpecCodec: UpgradeStatus::encode and UpgradeStatus::decode on every     *)
(* value and on every buffer of up to MaxMsgLen bytes.                     *)
(***************************************************************************)
InitCodec ==
    /\ \E x \in UpgradeStatusValues, b \in ByteSeqs(WireBytes, MaxMsgLen) :
           codec = [CodecIdle EXCEPT !.value = x, !.bytes = b]
    /\ gateway = GatewayIdle
    /\ LocksIdle
    /\ QueueIdle
    /\ hs = HsIdle
    /\ sessions = {}
    /\ TrackerInit(0)

NextCodec == CodecEncode \/ CodecDecode

SpecCodec == InitCodec /\ [][NextCodec]_vars

(***************************************************************************)
(* SpecHandshake: sessions, one at a time, from the connection through the *)
(* handshake to the ActivePeerSession and SessionClosed arms of main.rs.   *)
(***************************************************************************)
\* A peer connects: the session manager calls BscHandshake::handshake.
HsConnect(p) ==
    /\ hs.pc = "idle"
    /\ p \notin sessions
    /\ hs' = [HsIdle EXCEPT !.pc = "eth_handshake", !.peer = p]
    /\ UNCHANGED <<codec, gateway, lockVars, queueVars, sessions, trackerVars>>

\* The base handshake succeeds and upgrade_status runs to its first await.
HsEthHandshakeOk(status, send_ok) ==
    /\ hs.pc = "eth_handshake"
    /\ hs' = upgrade_status_start(hs, status, send_ok)
    /\ UNCHANGED <<codec, gateway, lockVars, queueVars, sessions, trackerVars>>

\* The base handshake fails and its error is ignored: the local extension
\* message is written all the same and the peer's message is awaited.
HsEthHandshakeErrIgnored ==
    /\ hs.pc = "eth_handshake"
    /\ hs' = [hs EXCEPT !.pc = "next",
                        !.wire = Append(@, WireMessage(UpgradeStatusEncode(LocalUpgradeStatus)))]
    /\ UNCHANGED <<codec, gateway, lockVars, queueVars, sessions, trackerVars>>

\* The base handshake fails: `?` returns its error.
HsEthHandshakeErr ==
    /\ hs.pc = "eth_handshake"
    /\ hs' = HsReturnErr(hs, "EthHandshakeError")
    /\ UNCHANGED <<codec, gateway, lockVars, queueVars, sessions, trackerVars>>

HsNextMessage ==
    /\ hs.pc = "next"
    /\ \E m \in PeerMessages : hs' = upgrade_status_on_message(hs, m)
    /\ UNCHANGED <<codec, gateway, lockVars, queueVars, sessions, trackerVars>>

HsNextStreamError ==
    /\ hs.pc = "next"
    /\ hs' = upgrade_status_on_stream_error(hs)
    /\ UNCHANGED <<codec, gateway, lockVars, queueVars, sessions, trackerVars>>

HsNextNone ==
    /\ hs.pc = "next"
    /\ hs' = upgrade_status_on_none([hs EXCEPT !.ended = TRUE])
    /\ UNCHANGED <<codec, gateway, lockVars, queueVars, sessions, trackerVars>>

HsDisconnected(ok) ==
    /\ hs.pc = "disconnect"
    /\ hs' = upgrade_status_on_disconnect(hs, ok)
    /\ UNCHANGED <<codec, gateway, lockVars, queueVars, sessions, trackerVars>>

HsTimeout ==
    /\ hs.pc \in HsAwaits
    /\ hs' = handshake_timeout(hs)
    /\ UNCHANGED <<codec, gateway, lockVars, queueVars, sessions, trackerVars>>

\* The handshake returned Ok: the session is reported active and the event
\* loop runs its ActivePeerSession arm.
HsSessionActive ==
    /\ hs.pc = "returned" /\ hs.result = "Ok" /\ ~hs.active
    /\ hs' = [hs EXCEPT !.active = TRUE]
    /\ sessions' = sessions \cup {hs.peer}
    /\ Apply("ActivePeerSession", hs.peer, OnActivePeerSession(Tracker, hs.peer), {}, {})
    /\ UNCHANGED <<codec, gateway, lockVars, queueVars>>

\* The session ends: one that was active is reported closed and the event
\* loop runs its SessionClosed arm; a failed handshake just drops the peer.
HsSessionClosed ==
    /\ hs.active
    /\ hs' = HsIdle
    /\ sessions' = sessions \ {hs.peer}
    /\ Apply("SessionClosed", hs.peer, OnSessionClosed(Tracker, hs.peer), {}, {})
    /\ UNCHANGED <<codec, gateway, lockVars, queueVars>>

HsFailed ==
    /\ \/ hs.pc = "returned" /\ hs.result = "Err"
       \/ hs.pc = "panicked"
    /\ hs' = HsIdle
    /\ UNCHANGED <<codec, gateway, lockVars, queueVars, sessions, trackerVars>>

InitHandshake ==
    /\ codec = CodecIdle
    /\ gateway = GatewayIdle
    /\ LocksIdle
    /\ QueueIdle
    /\ hs = HsIdle
    /\ sessions = {}
    /\ TrackerInit(0)

NextHandshake ==
    \/ \E p \in Peers : HsConnect(p)
    \/ \E st \in UnifiedStatuses, send_ok \in BOOLEAN : HsEthHandshakeOk(st, send_ok)
    \/ HsEthHandshakeErr
    \/ HsNextMessage
    \/ HsNextStreamError
    \/ HsNextNone
    \/ \E ok \in BOOLEAN : HsDisconnected(ok)
    \/ HsTimeout
    \/ HsSessionActive
    \/ HsSessionClosed
    \/ HsFailed

SpecHandshake == InitHandshake /\ [][NextHandshake]_vars


(***************************************************************************)
(* The codec of the extension message (SpecCodec).                         *)
(***************************************************************************)
\* C1: round trip of the codec: decoding the bytes that encoding a message
\* produced succeeds and yields that message, for either value of the flag.
C1_RoundTrip ==
    (codec.op = "decode" /\ codec.encoded) =>
        (codec.out.res = "Ok" /\ codec.out.value = codec.value)

\* C2: decoding is total: for every byte sequence, the empty one, the lone
\* tag byte and truncated ones included, decode returns a message or an
\* error and never panics.
C2_DecodeNeverPanics ==
    codec.op = "decode" => codec.out.res \in {"Ok", "Err"}

(***************************************************************************)
(* The block state manager under any sequence of calls (Spec).             *)
(***************************************************************************)
\* C3: at most one pending request: for every number n of BlockInputs, a
\* handler sends no request for n when n was requested and has not since
\* been passed to process_received_block.
C3_AtMostOnePending ==
    [][\A n \in unanswered :
           \A i \in 1..Len(sent') : sent'[i].start_block # n]_vars

\* C3, amended: for every number n of BlockInputs, a handler sends no request
\* for n when n was requested and has since neither been passed to
\* process_received_block nor been dropped by a cleanup; and no handler
\* sends a number twice.
C3_AtMostOnePendingUnlessDropped ==
    [][/\ \A n \in outstanding \ last'.dropped :
              \A i \in 1..Len(sent') : sent'[i].start_block # n
       /\ \A i, j \in 1..Len(sent') :
              i < j => sent'[i].start_block # sent'[j].start_block]_vars

\* A second request_block_by_number for a number still outstanding, with a
\* peer connected, has sent nothing.
C3_SecondRequestSuppressed ==
    /\ last.op = "request_block_by_number"
    /\ Len(peerset) > 0
    /\ last.arg \in outstanding
    /\ ContainsKey(pending_requests, last.arg)
    /\ sent = <<>>

\* One call of update_height, from the state before it to the state after.
C4_UpdateHeightStep ==
    last'.op = "update_height" =>
        /\ current_height' = (IF last'.arg > current_height
                              THEN last'.arg ELSE current_height)
        /\ last'.ret = (last'.arg > current_height)

\* C4: update_height(new) sets the height to new and returns true iff new is
\* above the height, otherwise leaves it and returns false; the height is
\* always the largest of the starting height and the values passed so far,
\* and no handler decreases it.
C4_UpdateHeightMonotonic ==
    /\ [](current_height = max_height)
    /\ [][current_height' >= current_height /\ C4_UpdateHeightStep]_vars

\* update_height was called with a value below the height, which it kept.
C4_LowerHeightRefused ==
    /\ last.op = "update_height"
    /\ last.arg < current_height
    /\ last.ret = FALSE
    /\ current_height = max_height

\* The numbers of the window [H+1, min(H+6, r)) that are neither received
\* nor pending before the call with r.
C5_Missing ==
    {n \in (current_height + 1)..(Min(current_height + 6, last'.arg) - 1) :
        n \notin received_blocks /\ ~ContainsKey(pending_requests, n)}

\* C5: with a peer connected, check_and_request_missing_blocks(r) requests,
\* in increasing order, exactly the numbers of [H+1, min(H+6, r)) that are
\* neither received nor pending: all of the window when nothing is, none
\* when r <= H+1; never more than 5 numbers, never a received one.
C5_GapFillWindow ==
    [][(last'.op = "check_and_request_missing_blocks" /\ Len(peerset) > 0) =>
           /\ {sent'[i].start_block : i \in 1..Len(sent')} = C5_Missing
           /\ Len(sent') = Cardinality(C5_Missing)
           /\ \A i, j \in 1..Len(sent') :
                  i < j => sent'[i].start_block < sent'[j].start_block
           /\ Len(sent') <= 5
           /\ \A i \in 1..Len(sent') : sent'[i].start_block \notin received_blocks
           /\ (last'.arg <= current_height + 1 => sent' = <<>>)]_vars

\* With nothing pending or received, the call with r = H+10 requested
\* H+1..H+5.
C5_FiveRequested ==
    /\ last.op = "check_and_request_missing_blocks"
    /\ last.arg = current_height + 10
    /\ received_blocks = {}
    /\ DOMAIN pending_requests = (current_height + 1)..(current_height + 5)
    /\ Len(sent) = 5
    /\ \A i \in 1..5 : sent[i].start_block = current_height + i

\* What is left of the map when the sweep keeps the keys above `threshold`.
C6_Swept(threshold) ==
    /\ DOMAIN pending_requests' = {k \in DOMAIN pending_requests : k > threshold}
    /\ \A k \in DOMAIN pending_requests' : pending_requests'[k] = pending_requests[k]

\* One call of cleanup_expired_requests which keeps the keys above
\* `threshold` when the map holds more than 100 entries.
C6_SweepStep(threshold) ==
    last'.op = "cleanup_expired_requests" =>
        /\ IF Cardinality(DOMAIN pending_requests) > 100
           THEN C6_Swept(threshold)
           ELSE pending_requests' = pending_requests
        /\ UNCHANGED <<current_height, peerset, received_blocks>>

\* C6: with more than 100 pending entries and height H, the sweep leaves
\* exactly the entries with key > H-50; with 100 entries or fewer it leaves
\* the map unchanged; it never changes the height, the peers or the
\* received blocks.
C6_Sweep ==
    [][C6_SweepStep(current_height - 50)]_vars

\* C6, amended: the threshold is H-50 for H >= 50 and 0 below, so that for
\* H < 50 the sweep drops the entry with key 0.
C6_SweepSaturating ==
    [][C6_SweepStep(IF current_height >= 50 THEN current_height - 50 ELSE 0)]_vars

\* A sweep at a height above 50 has dropped entries and kept others.
C6_SweepDropped ==
    /\ last.op = "cleanup_expired_requests"
    /\ last.dropped # {}
    /\ current_height > 50
    /\ \A k \in last.dropped : k <= current_height - 50
    /\ DOMAIN pending_requests # {}

\* C7: with no peer connected, request_next_block and
\* request_block_by_number send no request and leave pending_requests,
\* received_blocks, the peers and the height as they were.
C7_NoPeerNoRequest ==
    [][(last'.op \in {"request_next_block", "request_block_by_number"}
            /\ peerset = <<>>) =>
           /\ sent' = <<>>
           /\ UNCHANGED <<pending_requests, received_blocks, peerset, current_height>>]_vars

\* request_next_block was called with no peer: it warned and sent nothing.
C7_WarnedWithoutPeer ==
    /\ last.op = "request_next_block"
    /\ peerset = <<>>
    /\ last.warned
    /\ sent = <<>>
    /\ ~ContainsKey(pending_requests, current_height + 1)


(***************************************************************************)
(* The negotiation of a session (SpecHandshake).                           *)
(***************************************************************************)
\* The last thing the negotiator put on the wire is a disconnect with
\* `reason`.
SentDisconnect(reason) ==
    /\ hs.wire # <<>>
    /\ hs.wire[Len(hs.wire)] = WireDisconnect(reason)

\* No disconnect was put on the wire.
NoDisconnectSent ==
    \A i \in 1..Len(hs.wire) : hs.wire[i].kind # "disconnect"

\* The negotiation failed before its disconnect was sent: the send failed,
\* or the timeout of the handshake fired first.
DisconnectCutShort ==
    /\ hs.err \in {"DisconnectFailed", "StreamTimeout"}
    /\ NoDisconnectSent

\* C8: from an empty tracker, a peer connects and both sides send the
\* extension message with the flag false: the negotiation succeeds, and
\* when the session becomes active and request_next_block is called,
\* exactly one GetBlockHeaders request, for height+1, is sent to that peer.
C8_ConnectScenario ==
    [][/\ (/\ hs.pc = "next"
           /\ hs.wire = <<WireMessage(UpgradeStatusEncode(LocalUpgradeStatus))>>
           /\ hs'.received = <<UpgradeStatusEncode(LocalUpgradeStatus)>>)
          => (hs'.pc = "returned" /\ hs'.result = "Ok")
       /\ (/\ ~hs.active /\ hs'.active
           /\ peerset = <<>> /\ pending_requests = <<>> /\ received_blocks = {})
          => sent' = <<GetBlockHeaders(hs.peer, current_height + 1)>>]_vars

\* The peer's message was taken from the stream and does not decode.
C9_Undecodable ==
    /\ hs.received # <<>>
    /\ UpgradeStatusDecode(hs.received[1]).res # "Ok"

\* C9: when the peer's message fails to decode, the negotiator disconnects
\* with ProtocolBreach and fails with NonStatusMessageInHandshake (the
\* UnexpectedMessage error); it never returns success. A negotiation cut
\* short while the disconnect is being sent is left aside.
C9_ProtocolBreach ==
    C9_Undecodable =>
        /\ hs.pc \in {"disconnect", "returned"}
        /\ hs.reason = "ProtocolBreach"
        /\ hs.result # "Ok"
        /\ hs.pc = "returned" =>
               \/ DisconnectCutShort
               \/ hs.err = "NonStatusMessageInHandshake"
                     /\ SentDisconnect("ProtocolBreach")

\* C10: when the peer's stream ends before a response, the negotiator sends
\* a disconnect with DisconnectRequested and the negotiation fails with
\* NoResponse.
C10_NoResponse ==
    hs.ended =>
        /\ hs.pc \in {"disconnect", "returned"}
        /\ hs.reason = "DisconnectRequested"
        /\ hs.result # "Ok"
        /\ hs.pc = "returned" =>
               hs.err = "NoResponse" /\ SentDisconnect("DisconnectRequested")

\* C10, amended: the negotiation fails with NoResponse once the disconnect
\* has been sent; when sending it fails, or the timeout of the handshake
\* fires first, it fails with that error and no disconnect is sent.
C10_NoResponseUnlessCutShort ==
    hs.ended =>
        /\ hs.pc \in {"disconnect", "returned"}
        /\ hs.reason = "DisconnectRequested"
        /\ hs.result # "Ok"
        /\ hs.pc = "returned" =>
               \/ DisconnectCutShort
               \/ hs.err = "NoResponse" /\ SentDisconnect("DisconnectRequested")

\* The stream ended, the disconnect was sent and the negotiation returned
\* NoResponse.
C10_ReturnedNoResponse ==
    /\ hs.ended
    /\ hs.pc = "returned"
    /\ hs.err = "NoResponse"
    /\ SentDisconnect("DisconnectRequested")

\* A message that is the encoding of an extension message, or that the
\* decoder accepts as one.
C11_ValidMessage(m) ==
    \/ \E v \in UpgradeStatusValues : m = UpgradeStatusEncode(v)
    \/ UpgradeStatusDecode(m).res = "Ok"

\* C11: when the peer sends a valid extension message, with the flag true or
\* false, the negotiation succeeds and returns the result of the base
\* handshake unchanged.
C11_ValidMessageAccepted ==
    (hs.received # <<>> /\ C11_ValidMessage(hs.received[1])) =>
        /\ hs.pc = "returned"
        /\ hs.result = "Ok"
        /\ hs.returned = hs.status

\* C12: the negotiator sends the local extension message and awaits the
\* peer's only for a negotiated version newer than Eth66; for a version at
\* or below Eth66 it returns the result of the base handshake at once,
\* having sent and received no extension message.
C12_OnlyAboveEth66 ==
    /\ (hs.pc \in {"next", "disconnect", "panicked"}
            \/ hs.wire # <<>> \/ hs.received # <<>> \/ hs.ended)
           => hs.status.version > Eth66
    /\ (hs.status # NoStatus /\ hs.status.version <= Eth66) =>
           /\ hs.pc = "returned"
           /\ hs.result = "Ok"
           /\ hs.returned = hs.status
           /\ hs.wire = <<>>
           /\ hs.received = <<>>

\* The base handshake agreed on Eth66 and the negotiator returned its result
\* with nothing sent or received.
C12_Eth66ReturnedAtOnce ==
    /\ hs.status.version = Eth66
    /\ hs.pc = "returned"
    /\ hs.result = "Ok"
    /\ hs.returned = hs.status
    /\ hs.wire = <<>>
    /\ hs.received = <<>>
    /\ ~hs.active

\* C13: one timeout covers the base handshake and the negotiation: at every
\* await of either (the base handshake, the peer's message, the disconnect)
\* the deadline may elapse, and when it does the handshake fails with
\* StreamTimeout; a handshake that timed out never returns success and its
\* session never becomes active.
C13_CombinedTimeout ==
    /\ [](hs.pc \in {"eth_handshake", "next", "disconnect"} => ENABLED HsTimeout)
    /\ [](hs.err = "StreamTimeout" =>
              (hs.pc = "returned" /\ hs.result = "Err" /\ ~hs.active))
    /\ [][/\ HsTimeout =>
                 (hs'.pc = "returned" /\ hs'.result = "Err" /\ hs'.err = "StreamTimeout")
          /\ hs.err = "StreamTimeout" => hs'.result # "Ok"]_vars

\* The deadline elapsed during the negotiation, after the local extension
\* message was written: the handshake failed with StreamTimeout.
C13_TimedOutNegotiating ==
    /\ hs.pc = "returned"
    /\ hs.err = "StreamTimeout"
    /\ hs.result = "Err"
    /\ hs.wire = <<WireMessage(UpgradeStatusEncode(LocalUpgradeStatus))>>
    /\ hs.received = <<>>

(***************************************************************************)
(* SpecMain: the tracker as main.rs drives it.  The tracker starts at      *)
(* height 0, the event loop handles whatever the network and the block     *)
(* importer deliver, and the maintenance task ticks.  sessions follows the *)
(* notifications: a peer is in it from its ActivePeerSession until its     *)
(* SessionClosed.  An event is handled in the step in which it arrives, so *)
(* no event is ever left unconsumed; the interval timer of the maintenance *)
(* task never stops, which is the weak fairness of Tick.                   *)
(***************************************************************************)
MainSessionActive(p) ==
    /\ Apply("ActivePeerSession", p, OnActivePeerSession(Tracker, p), {}, {})
    /\ sessions' = sessions \cup {p}
    /\ UNCHANGED <<codec, gateway, lockVars, queueVars, hs>>

MainSessionClosed(p) ==
    /\ Apply("SessionClosed", p, OnSessionClosed(Tracker, p), {}, {})
    /\ sessions' = sessions \ {p}
    /\ UNCHANGED <<codec, gateway, lockVars, queueVars, hs>>

InitMain ==
    /\ codec = CodecIdle
    /\ gateway = GatewayIdle
    /\ LocksIdle
    /\ QueueIdle
    /\ hs = HsIdle
    /\ sessions = {}
    /\ TrackerInit(0)

NextMain ==
    \/ \E p \in Peers : MainSessionActive(p)
    \/ \E p \in Peers : MainSessionClosed(p)
    \/ \E n \in BlockInputs : NewBlock(n)
    \/ \E ns \in HashInputs : NewBlockHashes(ns)
    \/ Tick

SpecMain == InitMain /\ [][NextMain]_vars /\ WF_vars(Tick)

\* The block numbers whose pending entries the lifetime property follows:
\* the first block, and the last number of the long announcement.
PendingInputs == BlockInputs \cup {CLEANUP_LIMIT + 1}

\* C14: a block number never remains in pending_requests indefinitely: in
\* every fair execution, an entry placed in pending_requests is eventually
\* removed, by a matching block event or by the staleness sweep.
C14_PendingEventuallyRemoved ==
    \A n \in PendingInputs :
        ContainsKey(pending_requests, n) ~> ~ContainsKey(pending_requests, n)

\* C15: after any sequence of SessionActive / SessionClosed notifications
\* handled by the event loop, the tracker's peers are exactly the peers whose
\* session is currently reported active, and no identifier is listed twice.
C15_PeersAreActiveSessions ==
    /\ {peerset[i] : i \in 1..Len(peerset)} = sessions
    /\ Len(peerset) = Cardinality(sessions)

\* A peer's session has closed while another peer's session stays active.
C15_ClosedPeerRemoved ==
    /\ last.op = "SessionClosed"
    /\ \E p \in Peers : peerset = <<p>> /\ sessions = {p} /\ last.arg # p

(***************************************************************************)
(* SpecPeerSet: every sequence of calls on one BSCGatewayPeerSet.          *)
(***************************************************************************)
InitPeerSet ==
    /\ codec = CodecIdle
    /\ gateway = GatewayIdle
    /\ LocksIdle
    /\ QueueIdle
    /\ hs = HsIdle
    /\ sessions = {}
    /\ TrackerInit(0)

NextPeerSet ==
    \/ \E p \in GatewayPeers : GatewayAddPeer(p)
    \/ \E p \in GatewayPeers : GatewayRemovePeer(p)
    \/ GatewayGetAllPeers
    \/ GatewayGetPeerCount

SpecPeerSet == InitPeerSet /\ [][NextPeerSet]_vars

\* The ids in a vector of peers.
PeerRange(peers) == {peers[i] : i \in 1..Len(peers)}

\* C16: the Peer Set operations are idempotent: add(id) of a present id and
\* remove(id) of an absent id leave the set unchanged; after any sequence of
\* add / remove calls the set has no duplicates, holds id exactly when the
\* last operation on id was an add, and count() is the length of snapshot().
C16_PeerSetIdempotent ==
    /\ [](/\ Cardinality(PeerRange(gateway.connected_peers))
                 = Len(gateway.connected_peers)
          /\ PeerRange(gateway.connected_peers) = gateway.added
          /\ get_peer_count(gateway.connected_peers)
                 = Len(get_all_peers(gateway.connected_peers))
          /\ gateway.op = "get_peer_count"
                 => gateway.ret = Len(get_all_peers(gateway.connected_peers))
          /\ gateway.op = "get_all_peers" => gateway.ret = gateway.connected_peers)
    /\ [][/\ (gateway'.op = "add_peer"
                  /\ Contains(gateway.connected_peers, gateway'.arg))
                 => gateway'.connected_peers = gateway.connected_peers
          /\ (gateway'.op = "remove_peer"
                  /\ ~Contains(gateway.connected_peers, gateway'.arg))
                 => gateway'.connected_peers = gateway.connected_peers
          /\ (gateway'.op = "add_peer"
                  /\ ~Contains(gateway.connected_peers, gateway'.arg))
                 => gateway'.connected_peers
                        = Append(gateway.connected_peers, gateway'.arg)
          /\ gateway'.op = "remove_peer"
                 => /\ ~Contains(gateway'.connected_peers, gateway'.arg)
                    /\ PeerRange(gateway'.connected_peers)
                           = PeerRange(gateway.connected_peers) \ {gateway'.arg}]_vars

\* add_peer(1) was called on a set that already held 1 ahead of 2, and
\* afterwards the set is still 1, 2.
C16_AddedAgain ==
    /\ gateway.op = "add_peer"
    /\ gateway.arg = 1
    /\ gateway.connected_peers = <<1, 2>>

\* C17: handling a received block n removes n from pending_requests, adds n
\* to received_blocks and changes nothing else: every other pending entry,
\* the peers and current_height are as before (the height does not advance,
\* even for n = height + 1) and no request is sent.
C17_ReceivedBlockFrame ==
    [][last'.op = "NewBlock" =>
          /\ DOMAIN pending_requests' = DOMAIN pending_requests \ {last'.arg}
          /\ \A k \in DOMAIN pending_requests' :
                 pending_requests'[k] = pending_requests[k]
          /\ received_blocks' = received_blocks \cup {last'.arg}
          /\ peerset' = peerset
          /\ current_height' = current_height
          /\ sent' = <<>>]_vars

\* The block after the current height has just arrived with a peer
\* connected: it is received and not pending, another entry is still
\* pending and the height has not moved.
C17_NextBlockReceived ==
    /\ last.op = "NewBlock"
    /\ last.arg = current_height + 1
    /\ last.arg \in received_blocks
    /\ ~ContainsKey(pending_requests, last.arg)
    /\ DOMAIN pending_requests # {}
    /\ Len(peerset) > 0

\* The announced numbers that are above the height and not received.
C18_Wanted(block_numbers, height, received) ==
    {block_numbers[i] : i \in 1..Len(block_numbers)}
        \cap {n \in 0..(CLEANUP_LIMIT + 1) : n > height /\ n \notin received}

\* C18: handling an announcement of block numbers issues request_block for
\* each announced number that is above the current height and not in
\* received_blocks, and for no other number: none for an announced number at
\* or below the height or already received, none for a number that was not
\* announced.  An issued request_block sends one request and marks the number
\* pending unless the number is pending already, and only warns when there is
\* no peer.
C18_AnnouncedRequested ==
    [][last'.op = "NewBlockHashes" =>
          LET wanted == C18_Wanted(last'.arg, current_height, received_blocks)
              requested == {sent'[i].start_block : i \in 1..Len(sent')}
          IN  /\ requested \subseteq wanted
              /\ Len(sent') = Cardinality(requested)
              /\ Len(peerset) > 0 =>
                     /\ requested = wanted \ DOMAIN pending_requests
                     /\ DOMAIN pending_requests' = DOMAIN pending_requests \cup wanted
                     /\ ~last'.warned
              /\ Len(peerset) = 0 =>
                     /\ sent' = <<>>
                     /\ pending_requests' = pending_requests
                     /\ last'.warned <=> wanted # {}
              /\ current_height' = current_height
              /\ received_blocks' = received_blocks
              /\ peerset' = peerset]_vars

\* An announcement has been handled of which one number was already received
\* and others were requested.
C18_SomeRequestedSomeSkipped ==
    /\ last.op = "NewBlockHashes"
    /\ sent # <<>>
    /\ \E i \in 1..Len(last.arg) :
           last.arg[i] \in received_blocks /\ last.arg[i] > current_height
    /\ \A i \in 1..Len(sent) : sent[i].start_block \notin received_blocks

\* C19: requesting block number 0 is disallowed: block 0 is never marked
\* pending and no request for block 0 is ever sent; and no handler sends two
\* requests for the same number.
C19_BlockZeroNeverRequested ==
    /\ ~ContainsKey(pending_requests, 0)
    /\ \A i \in 1..Len(sent) : sent[i].start_block # 0
    /\ \A i, j \in 1..Len(sent) : i < j => sent[i].start_block # sent[j].start_block

\* C19 as the code has it: request_block_by_number does not refuse block 0.
\* Called with 0, a peer connected and 0 not pending, it marks 0 pending and
\* sends one request for block 0, as for any other number.  No other
\* operation marks 0 pending or requests block 0, because each of them
\* requests only numbers above the current height; and no operation sends a
\* request for a number that is pending, or two requests for one number.
C19_BlockZeroOnlyOnDirectRequest ==
    [][LET requested == {sent'[i].start_block : i \in 1..Len(sent')}
       IN  /\ (last'.op = "request_block_by_number" /\ last'.arg = 0) =>
                  IF Len(peerset) > 0 /\ ~ContainsKey(pending_requests, 0)
                  THEN /\ sent' = <<GetBlockHeaders(peerset[1], 0)>>
                       /\ ContainsKey(pending_requests', 0)
                  ELSE /\ sent' = <<>>
                       /\ pending_requests' = pending_requests
           /\ ~(last'.op = "request_block_by_number" /\ last'.arg = 0) =>
                  /\ 0 \notin requested
                  /\ ContainsKey(pending_requests', 0)
                         => ContainsKey(pending_requests, 0)
           /\ requested \cap DOMAIN pending_requests = {}
           /\ Len(sent') = Cardinality(requested)]_vars

\* request_block_by_number(0) has been called with a peer connected: block 0
\* is pending and a request for it has been sent.
C19_BlockZeroRequested ==
    /\ last.op = "request_block_by_number"
    /\ last.arg = 0
    /\ Len(peerset) > 0
    /\ ContainsKey(pending_requests, 0)
    /\ sent = <<GetBlockHeaders(peerset[1], 0)>>

\* C20: within one peer session the base handshake strictly precedes the
\* extension negotiation, which strictly precedes normal message flow.  The
\* local extension message is sent only after the base handshake has
\* succeeded; if the base handshake fails, no extension message is sent or
\* awaited; the session becomes active only after the negotiation has
\* returned success.
C20_HandshakeOrder ==
    /\ [](/\ hs.pc \in {"idle", "eth_handshake"} =>
                 (hs.wire = <<>> /\ hs.received = <<>> /\ hs.status = NoStatus)
          /\ (hs.wire # <<>> \/ hs.received # <<>>
                  \/ hs.pc \in {"next", "disconnect", "panicked"})
                 => hs.status \in UnifiedStatuses
          /\ hs.err = "EthHandshakeError" =>
                 /\ hs.pc = "returned" /\ hs.result = "Err"
                 /\ hs.wire = <<>> /\ hs.received = <<>> /\ ~hs.ended
                 /\ hs.status = NoStatus /\ ~hs.active
          /\ hs.active =>
                 /\ hs.pc = "returned" /\ hs.result = "Ok"
                 /\ hs.status \in UnifiedStatuses /\ hs.returned = hs.status
          /\ sessions \subseteq (IF hs.active THEN {hs.peer} ELSE {}))
    /\ [][/\ (hs'.wire # hs.wire /\ hs'.wire # <<>>) =>
                 (hs.pc # "idle" /\ hs'.status \in UnifiedStatuses)
          /\ (hs'.pc \in {"next", "disconnect"} /\ hs.pc \notin {"next", "disconnect"})
                 => hs.pc = "eth_handshake"
          /\ (hs'.active /\ ~hs.active) =>
                 (hs.pc = "returned" /\ hs.result = "Ok" /\ hs.returned = hs.status)
          /\ hs.err = "EthHandshakeError" =>
                 (hs'.wire = <<>> /\ hs'.received = <<>> /\ ~hs'.active)]_vars

\* A session has become active after a negotiation in which the local
\* extension message was sent and the peer's message was received.
C20_ActiveAfterNegotiation ==
    /\ hs.active
    /\ hs.peer \in sessions
    /\ hs.status.version > Eth66
    /\ hs.wire # <<>>
    /\ hs.received # <<>>

\* The extension messages a negotiation has put on the wire.
C21_MessagesSent == {i \in 1..Len(hs.wire) : hs.wire[i].kind = "message"}

\* C21: the negotiator never retries.  In one negotiation the local
\* extension message is sent at most once and at most one message of the
\* peer is consumed; once a message has been consumed or the stream has
\* ended, no further message is awaited; every failure is returned to the
\* caller and is final: a negotiation that has returned never goes back to
\* negotiating, and its result does not change.
C21_NeverRetries ==
    /\ [](/\ Cardinality(C21_MessagesSent) <= 1
          /\ Len(hs.received) <= 1
          /\ (hs.received # <<>> \/ hs.ended)
                 => hs.pc \in {"disconnect", "returned", "panicked"}
          /\ hs.err # "None" <=> hs.result = "Err"
          /\ hs.result # "None" <=> hs.pc = "returned"
          /\ hs.result = "Err" => ~hs.active)
    /\ [][/\ hs.pc \in {"returned", "panicked"} => hs'.pc \in {hs.pc, "idle"}
          /\ (hs.pc = "returned" /\ hs'.pc = "returned") =>
                 /\ hs'.result = hs.result /\ hs'.err = hs.err
                 /\ hs'.returned = hs.returned
                 /\ hs'.wire = hs.wire /\ hs'.received = hs.received
          /\ hs.pc = "disconnect" =>
                 (hs'.pc \in {"disconnect", "returned"} /\ hs'.result # "Ok")
          /\ (hs'.pc = "next" /\ hs.pc # "next") => hs.pc = "eth_handshake"]_vars

\* A negotiation has failed after its one message was sent and the one
\* message of the peer was consumed.
C21_FailedAfterOneExchange ==
    /\ hs.pc = "returned"
    /\ hs.result = "Err"
    /\ hs.err = "NonStatusMessageInHandshake"
    /\ Cardinality(C21_MessagesSent) = 1
    /\ Len(hs.received) = 1

\* C22: a request goes to exactly one peer, the first of the peers sequence
\* (the earliest-added peer still connected), and it is GetBlockHeaders with
\* start = the requested number, limit 1, skip 0, direction Rising; with
\* several peers connected no other peer receives it.
C22_RequestToFirstPeer ==
    [][/\ \A i \in 1..Len(sent') :
              /\ Len(peerset') > 0
              /\ sent'[i] = [peer_id |-> peerset'[1],
                             start_block |-> sent'[i].start_block,
                             limit |-> 1, skip |-> 0, direction |-> "Rising"]
       /\ last'.op = "request_block_by_number" =>
              /\ peerset' = peerset
              /\ IF Len(peerset) > 0 /\ ~ContainsKey(pending_requests, last'.arg)
                 THEN sent' = <<[peer_id |-> peerset[1], start_block |-> last'.arg,
                                 limit |-> 1, skip |-> 0, direction |-> "Rising"]>>
                 ELSE sent' = <<>>]_vars

\* With two peers connected, the later-numbered one added first, a request
\* was sent to that peer alone.
C22_SentToEarliestOfTwo ==
    /\ last.op = "request_block_by_number"
    /\ Len(peerset) = 2
    /\ peerset[1] > peerset[2]
    /\ Len(sent) = 1
    /\ sent[1].peer_id = peerset[1]
    /\ sent[1].start_block = last.arg

(***************************************************************************)
(* SpecLocks: the event loop and the maintenance task of main.rs running   *)
(* concurrently on one BlockStateManager, lock by lock.  The tracker       *)
(* starts as main.rs builds it, or as it stands once a peer has connected  *)
(* and the announcement of blocks 1..101 has been handled, which is when   *)
(* the sweep has more than CLEANUP_LIMIT entries to look at.               *)
(***************************************************************************)
\* The tracker once peer 1 has connected and the announcement of blocks
\* 1..101 has been handled.
LoadedTracker ==
    OnNewBlockHashes(OnActivePeerSession(new(0), 1), LongAnnouncement)

\* The counters of that state: each of these numbers was inserted and
\* requested once.
LoadedCounts ==
    [NoCounts EXCEPT
         !.inserted = [n \in CountedNumbers |->
                           IF ContainsKey(LoadedTracker.pending_requests, n)
                           THEN 1 ELSE 0],
         !.requested = [n \in CountedNumbers |->
                            IF ContainsKey(LoadedTracker.pending_requests, n)
                            THEN 1 ELSE 0]]

InitLocks ==
    /\ codec = CodecIdle
    /\ gateway = GatewayIdle
    /\ QueueIdle
    /\ hs = HsIdle
    /\ sessions = {}
    /\ locks = NoLocks
    /\ tasks = [k \in TaskNames |-> TaskIdle]
    /\ \E loaded \in BOOLEAN :
           /\ counts = IF loaded THEN LoadedCounts ELSE NoCounts
           /\ current_height = 0
           /\ peerset = IF loaded THEN LoadedTracker.peerset ELSE new(0).peerset
           /\ pending_requests = IF loaded THEN LoadedTracker.pending_requests
                                 ELSE new(0).pending_requests
           /\ received_blocks = {}
           /\ unanswered = IF loaded
                           THEN DOMAIN LoadedTracker.pending_requests \cap BlockInputs
                           ELSE {}
           /\ outstanding = IF loaded
                            THEN DOMAIN LoadedTracker.pending_requests \cap BlockInputs
                            ELSE {}
    /\ sent = <<>>
    /\ last = NoCall
    /\ max_height = 0

NextLocks ==
    \/ TimerTick
    \/ Cleanup
    \/ CleanupHeight
    \/ CheckPeers
    \/ \E p \in Peers : TakeActivePeerSession(p)
    \/ \E p \in Peers : TakeSessionClosed(p)
    \/ \E n \in BlockInputs : TakeNewBlock(n)
    \/ \E ns \in AnnouncedInputs : TakeNewBlockHashes(ns)
    \/ AddPeerLocked
    \/ RemovePeerLocked
    \/ LogHeight
    \/ RecvPending
    \/ RecvReceived
    \/ HashesHeight
    \/ HashesReceived
    \/ \E k \in TaskNames : NextHeight(k)
    \/ \E k \in TaskNames : ReqPeers(k)
    \/ \E k \in TaskNames : ReqPending(k)
    \/ \E k \in TaskNames : ReqSend(k)

SpecLocks == InitLocks /\ [][NextLocks]_vars

\* C23: request_block_by_number takes the peers lock and the
\* pending_requests lock one after the other, not nested: the peers lock is
\* not held while pending_requests is changed and the request is sent, so
\* that a concurrent remove_peer can take effect between the choice of the
\* peer and the sending.
C23_PeersLockNotHeldWhileSending ==
    \A k \in TaskNames :
        tasks[k].pc \in {"req_pending", "req_send"} => locks["peerset"] # k

\* C23 as the code has it: the peers guard taken for the choice of the peer
\* is held until the request has been sent, the pending_requests lock being
\* taken and released inside it.  Peers are added and removed only while no
\* request holds the guard, so a request is always sent to the peer that is
\* first in peers at the moment of sending.
C23_PeersLockHeldUntilSent ==
    /\ [](\A k \in TaskNames :
              tasks[k].pc \in {"req_pending", "req_send"} =>
                  /\ locks["peerset"] = k
                  /\ Len(peerset) > 0
                  /\ tasks[k].peer_id = peerset[1])
    /\ [][/\ sent' # <<>> =>
                 /\ Len(sent') = 1
                 /\ Len(peerset) > 0
                 /\ sent'[1].peer_id = peerset[1]
                 /\ peerset' = peerset
          /\ peerset' # peerset => locks["peerset"] = "none"]_vars

\* The maintenance task is about to send a request to a peer while the event
\* loop, handling the SessionClosed of that peer, waits in remove_peer for
\* the peers lock.
C23_RemoveWaitsForRequest ==
    /\ tasks["timer"].pc = "req_send"
    /\ tasks["events"].pc = "remove_peer"
    /\ tasks["events"].arg = tasks["timer"].peer_id
    /\ locks["peerset"] = "timer"

\* The tasks that have inserted n into pending_requests and have not yet
\* handed the request for n to the transport.
C26_Sending(n) ==
    {k \in TaskNames : tasks[k].pc = "req_send" /\ tasks[k].block_number = n}

\* C26: under every interleaving of the maintenance task and the event loop,
\* for every block number n, each insertion of n into pending_requests is
\* accompanied by exactly one sent request for n, n is inserted only when it
\* is absent (the test and the insertion are one atomic step), and so the
\* requests sent for n number at most one more than the removals of n from
\* pending_requests.
C26_OneRequestPerInsertion ==
    /\ [](\A n \in CountedNumbers :
              /\ counts.inserted[n]
                     = counts.requested[n] + Cardinality(C26_Sending(n))
              /\ counts.inserted[n]
                     = counts.removed[n]
                           + (IF ContainsKey(pending_requests, n) THEN 1 ELSE 0)
              /\ counts.requested[n] <= 1 + counts.removed[n])
    /\ [][/\ \A n \in DOMAIN pending_requests' \ DOMAIN pending_requests :
                 /\ DOMAIN pending_requests' = DOMAIN pending_requests \cup {n}
                 /\ \E k \in TaskNames :
                        /\ tasks[k].pc = "req_pending"
                        /\ tasks'[k].pc = "req_send"
                        /\ tasks[k].block_number = n
          /\ sent' # <<>> =>
                 \E k \in TaskNames :
                     /\ tasks[k].pc = "req_send"
                     /\ sent' = <<GetBlockHeaders(tasks[k].peer_id,
                                                  tasks[k].block_number)>>]_vars

\* Both tasks are requesting the same block at once: the maintenance task
\* has inserted it and is about to send, the event loop is on its way to the
\* test; and the block has been requested, received and requested again.
C26_BothRequestSameBlock ==
    /\ tasks["timer"].pc = "req_send"
    /\ tasks["events"].pc = "req_peers"
    /\ tasks["events"].block_number = tasks["timer"].block_number
    /\ tasks["timer"].block_number \in CountedNumbers
    /\ counts.removed[tasks["timer"].block_number] = 1
    /\ counts.requested[tasks["timer"].block_number] = 1

\* The lock a task takes in its next step, "none" when that step takes none.
C27_Wants(k) ==
    CASE tasks[k].pc \in {"req_peers", "check_peers", "add_peer", "remove_peer"}
             -> "peerset"
      [] tasks[k].pc \in {"req_pending", "cleanup", "recv_pending"}
             -> "pending_requests"
      [] tasks[k].pc \in {"next_height", "cleanup_height", "log_height_block",
                          "log_height_hashes", "hashes_height"}
             -> "current_height"
      [] tasks[k].pc \in {"recv_received", "hashes_received"}
             -> "received_blocks"
      [] OTHER -> "none"

\* The locks a task holds.
C27_Holds(k) == {l \in LockNames : locks[l] = k}

\* The one order of nested acquisition: peers, pending_requests, height.
C27_Rank(l) ==
    CASE l = "peerset" -> 1
      [] l = "pending_requests" -> 2
      [] l = "current_height" -> 3
      [] OTHER -> 4

\* The steps inside a handler or a tick, those that may have to wait.
C27_Steps ==
    \/ Cleanup \/ CleanupHeight \/ CheckPeers \/ AddPeerLocked \/ RemovePeerLocked
    \/ LogHeight \/ RecvPending \/ RecvReceived \/ HashesHeight \/ HashesReceived
    \/ \E k \in TaskNames : NextHeight(k) \/ ReqPeers(k) \/ ReqPending(k) \/ ReqSend(k)

\* C27: the tracker's locks cannot deadlock.  Nested acquisition follows one
\* acyclic order (peers before pending_requests in request_block,
\* pending_requests before the height in the sweep, a single lock everywhere
\* else); no task takes a lock it already holds; in no reachable state do
\* two tasks each wait for a lock the other holds; and whenever a task is
\* inside a handler some task can take a step.
C27_NoDeadlock ==
    [](/\ \A k \in TaskNames :
              /\ C27_Wants(k) # "none" => locks[C27_Wants(k)] # k
              /\ \A l \in C27_Holds(k) :
                     /\ l \in {"peerset", "pending_requests"}
                     /\ C27_Wants(k) # "none" => C27_Rank(l) < C27_Rank(C27_Wants(k))
                     /\ l = "peerset" => tasks[k].pc \in {"req_pending", "req_send"}
                     /\ l = "pending_requests" => tasks[k].pc = "cleanup_height"
       /\ ~ \E k1, k2 \in TaskNames :
                /\ k1 # k2
                /\ C27_Wants(k1) # "none" /\ locks[C27_Wants(k1)] = k2
                /\ C27_Wants(k2) # "none" /\ locks[C27_Wants(k2)] = k1
       /\ (\E k \in TaskNames : tasks[k].pc # "idle") => ENABLED C27_Steps)

\* The whole chain at once: the event loop holds the peers lock and waits
\* for pending_requests, which the maintenance task holds in its sweep while
\* it goes on to the height.
C27_NestedChain ==
    /\ tasks["events"].pc = "req_pending"
    /\ locks["peerset"] = "events"
    /\ tasks["timer"].pc = "cleanup_height"
    /\ locks["pending_requests"] = "timer"

\* C28: the sweep threshold is computed with saturating subtraction.  For a
\* height H < 50 the threshold is 0, with no underflow or wrap-around, so a
\* sweep that fires keeps every entry with key >= 1 and drops only key 0;
\* for H >= 50 the threshold is H - 50.
C28_SaturatingThreshold ==
    /\ [](/\ SaturatingSub(current_height, CLEANUP_KEEP) >= 0
          /\ current_height < CLEANUP_KEEP
                 => SaturatingSub(current_height, CLEANUP_KEEP) = 0
          /\ current_height >= CLEANUP_KEEP
                 => SaturatingSub(current_height, CLEANUP_KEEP)
                        = current_height - CLEANUP_KEEP)
    /\ [][(last'.op \in {"cleanup_expired_requests", "Tick"}
               /\ MapLen(pending_requests) > CLEANUP_LIMIT) =>
              /\ current_height < CLEANUP_KEEP =>
                     /\ last'.dropped = DOMAIN pending_requests \cap {0}
                     /\ \A k \in DOMAIN pending_requests :
                            k >= 1 => ContainsKey(pending_requests', k)
              /\ current_height >= CLEANUP_KEEP =>
                     last'.dropped = {k \in DOMAIN pending_requests :
                                          k <= current_height - CLEANUP_KEEP}
              /\ \A k \in last'.dropped : ~ContainsKey(pending_requests', k)]_vars

\* A sweep has fired at a height below 50: it dropped key 0 and nothing
\* else, and more than 100 entries are left.
C28_OnlyZeroDropped ==
    /\ last.op = "cleanup_expired_requests"
    /\ current_height < CLEANUP_KEEP
    /\ last.dropped = {0}
    /\ ~ContainsKey(pending_requests, 0)
    /\ MapLen(pending_requests) > CLEANUP_LIMIT

\* C25: received_blocks only grows: under every operation of the tracker a
\* number once in received_blocks is in it in every later state.
C25_ReceivedOnlyGrows ==
    [][/\ received_blocks \subseteq received_blocks'
       /\ received_blocks' # received_blocks =>
              /\ last'.op = "NewBlock"
              /\ received_blocks' = received_blocks \cup {last'.arg}]_vars

\* Two blocks have been received and a sweep that dropped pending entries
\* has run since: both are still in received_blocks.
C25_ReceivedKeptThroughSweep ==
    /\ last.op = "cleanup_expired_requests"
    /\ last.dropped # {}
    /\ received_blocks = BlockInputs

(***************************************************************************)
(* SpecQueue: the unbounded channel between SmartBlockImporter and the     *)
(* event loop.  The network manager calls on_new_block, which sends one    *)
(* BlockEvent; the event loop receives the events and runs the arm of      *)
(* each.  enqueued and applied keep the history of both ends.              *)
(***************************************************************************)
MaxQueueEvents == 3

\* BlockEvent::NewBlock and BlockEvent::NewBlockHashes.
BlockEvent(kind, block_number, block_numbers) ==
    [kind |-> kind, block_number |-> block_number, block_numbers |-> block_numbers]

\* A receive that takes the event sent last.
ChannelHead_last(channel) == channel[Len(channel)]

\* UnboundedReceiver::recv: the event sent first among those in the channel.
ChannelHead(channel) == Head(channel)

\* on_new_block, the NewBlockEvent::Block arm: event_sender.send.
ImporterNewBlock(n) ==
    /\ Len(enqueued) < MaxQueueEvents
    /\ event_channel' = Append(event_channel, BlockEvent("NewBlock", n, <<>>))
    /\ enqueued' = Append(enqueued, BlockEvent("NewBlock", n, <<>>))
    /\ UNCHANGED <<codec, gateway, lockVars, applied, hsVars, trackerVars>>

\* on_new_block, the NewBlockEvent::Hashes arm: event_sender.send.
ImporterNewBlockHashes(ns) ==
    /\ Len(enqueued) < MaxQueueEvents
    /\ event_channel' = Append(event_channel, BlockEvent("NewBlockHashes", 0, ns))
    /\ enqueued' = Append(enqueued, BlockEvent("NewBlockHashes", 0, ns))
    /\ UNCHANGED <<codec, gateway, lockVars, applied, hsVars, trackerVars>>

\* main.rs:134-157: event_receiver.recv() yields an event and its arm runs.
RecvBlockEvent ==
    /\ event_channel # <<>>
    /\ IF ChannelHead(event_channel).kind = "NewBlock"
       THEN Apply("NewBlock", ChannelHead(event_channel).block_number,
                  OnNewBlock(Tracker, ChannelHead(event_channel).block_number),
                  {ChannelHead(event_channel).block_number}, {})
       ELSE Apply("NewBlockHashes", ChannelHead(event_channel).block_numbers,
                  OnNewBlockHashes(Tracker, ChannelHead(event_channel).block_numbers),
                  {}, {})
    /\ applied' = Append(applied, ChannelHead(event_channel))
    /\ event_channel' = Tail(event_channel)
    /\ UNCHANGED <<codec, gateway, lockVars, enqueued, hsVars>>

InitQueue ==
    /\ codec = CodecIdle
    /\ gateway = GatewayIdle
    /\ LocksIdle
    /\ QueueIdle
    /\ hs = HsIdle
    /\ sessions = {}
    /\ TrackerInit(0)

NextQueue ==
    \/ \E n \in BlockInputs : ImporterNewBlock(n)
    \/ \E ns \in AnnouncedInputs : ImporterNewBlockHashes(ns)
    \/ RecvBlockEvent
    \/ \E p \in Peers : MainSessionActive(p)
    \/ \E p \in Peers : MainSessionClosed(p)
    \/ Tick

SpecQueue == InitQueue /\ [][NextQueue]_vars

\* C24: the event loop applies the block events in the order in which the
\* importer sent them: what has been applied, followed by what is in the
\* channel, is what was sent, so that no event is applied twice, none is
\* applied that was not sent, and an event sent before another is applied
\* before it.  Each application runs the arm of the event at the head of the
\* channel, and no arm of a block event runs without an event.
C24_AppliedInOrder ==
    /\ [](enqueued = applied \o event_channel)
    /\ [][/\ applied' # applied =>
                 /\ event_channel # <<>>
                 /\ applied' = Append(applied, Head(event_channel))
                 /\ Head(event_channel) = enqueued[Len(applied) + 1]
                 /\ last'.op = Head(event_channel).kind
                 /\ last'.arg = IF Head(event_channel).kind = "NewBlock"
                                THEN Head(event_channel).block_number
                                ELSE Head(event_channel).block_numbers
          /\ (applied' = applied /\ last' # last) =>
                 last'.op \notin {"NewBlock", "NewBlockHashes"}]_vars

\* Two different events have been applied, in the order in which they were
\* sent, and a third waits in the channel.
C24_TwoAppliedOneWaiting ==
    /\ Len(applied) = 2
    /\ applied[1] # applied[2]
    /\ applied[1] = enqueued[1]
    /\ applied[2] = enqueued[2]
    /\ Len(event_channel) = 1
    /\ event_channel[1] # applied[2]

============================================================================
